---- MODULE Spec2Model ----
(***************************************************************************)
(* State-machine model of the Trenny-Fun-Bot economy ledger and game       *)
(* sessions.                                                                *)
(*                                                                          *)
(* Scheduling: every command handler is a coroutine on one event loop.  A   *)
(* handler runs without interruption until an `await` gives up the loop:   *)
(* a chat call (ctx.send, message.edit, add_reaction, clear_reactions), a   *)
(* bot.wait_for or an asyncio.sleep.  An `await` of the ledger does not:    *)
(* with the JSON backend DatabaseManager._get_data and _update_data          *)
(* (db.py 168-242) take an asyncio.Lock nobody holds and read or write the  *)
(* file with blocking calls, so get_economy_data, update_economy_data,      *)
(* add_balance, remove_balance and the game-data calls return without       *)
(* another handler having run.  Where the model writes a handler as         *)
(* several steps that only ledger calls separate, Step lets no other        *)
(* handler move until the stretch is over (InCall, Turn).                   *)
(*                                                                          *)
(* Wiring: every cog takes the ledger from bot.get_cog("Utils").db_manager. *)
(* The only cog that holds a db_manager is class DatabaseCog (db.py 273),   *)
(* which sets no cog name, so under discord.py's default naming that        *)
(* lookup returns None and every economy command ends at its                *)
(* "Database Error" message.  The model describes the program with that     *)
(* lookup answered by the database cog, the deployment the commands are     *)
(* written for; every statement below about coins or inventories is made    *)
(* under that assumption.                                                   *)
(*                                                                          *)
(* Ledger records are Python dicts: the JSON backend hands out the cached   *)
(* dict itself, so two handlers that read a cached record share one         *)
(* object.  The model keeps a heap of dict objects to keep that aliasing.   *)
(***************************************************************************)
EXTENDS Integers, Sequences, FiniteSets, TLC

\* ---------------------------------------------------------------- bounds
MaxObj == 6          \* dict objects alive at once
MaxCmds == 2         \* commands issued in one run, two handlers at a time
GameCmds == 1        \* games played in one run, one handler at a time
MaxHand == 4         \* cards in a blackjack hand valued on its own
MaxLook == 2         \* hidden memory cards, in reading order, the player chooses from
SeqCmds == 3         \* commands issued in one run, one handler at a time
MaxMoves == 2        \* snake moves steered freely before the player keeps to a course
MaxKeys == 1         \* direction reactions queued between two snake moves
SteerKeys == 3       \* directions queued between two snake ticks steered on their own
SteerTicks == 2      \* ticks of a snake game steered on its own
MaxWord == 4         \* letters in a word handed to scramble_word

\* ------------------------------------------------------- program constants
daily_min == 100
daily_max == 200
daily_streak_bonus == 50
daily_cooldown == 86400
work_min == 10
work_max == 50
booster_price == 2000
booster_days == 7
lootbox_price == 200
lootbox_min_coins == 50
lootbox_max_coins == 300
role_price == 500

\* input samples
InitBalances == {50, 200}
Amounts == {50, 100}
PayAmounts == {0, 50, 100}
\* A reading of int(time.time()), seconds since 1970 (economy.py 150); the
\* readings of a run are counted from it.  last_daily = 0 is the record of a
\* player who has never claimed, and no reading is 0.
Epoch == 1700000000
Times == {Epoch + s : s \in {0, 90000, 180000, 400000}}
Rolls == {30, 50, 70, 90, 99, 100}
Items == {"lootbox_common", "color_red", "unknown"}

Players == {"p1", "p2"}
Tasks == {"t1", "t2"}
ObjIds == 1..MaxObj

VARIABLES
    file,      \* data/economy/<guild>_<user>.json : record or NoFile
    cache,     \* DatabaseManager.cache : player -> object id, 0 = no entry
    heap,      \* the dict objects : object id -> record, NoRec = unused
    task,      \* the running coroutines : task -> frame
    now,       \* time.time() as last read
    ncmd,      \* commands the run may still issue
    start_bal, \* the balances the run started with
    loot,      \* the lootboxes the run has bought and opened, per player; NoLog in a run that keeps no count
    ranks,     \* the card ranks the shuffles of the run put on top of the decks
    bj_games,  \* Blackjack.games : player -> the task whose game is registered
    bj,        \* the BlackjackGame object of each task's blackjack coroutine
    cells,     \* the board positions the players of the run click
    ttt_games, \* TicTacToe.games for the one channel : the task whose game is registered
    pending_challenges, \* TicTacToe.pending_challenges : member -> challenging task
    ttt,       \* the TicTacToeGame object of each task's tictactoe coroutine
    mem_games, \* Memory.games : player -> the task whose game is registered
    mem,       \* the MemoryGame object of each task's memory coroutine
    ng_games,  \* NumberGuess.games : player -> the task whose game is registered
    ng,        \* the game_state dict of each task's numguess coroutine
    sn_games,  \* Snake.games : player -> the task whose game is registered
    sn,        \* the SnakeGame object of each task's snake coroutine
    hm_games,  \* Hangman.games : player -> the task whose game is registered
    hm,        \* the game_state dict of each task's hangman coroutine
    rps_games, \* RockPaperScissors.games : player -> the task whose game holds the player
    rps_stats, \* the leaderboard of the rps game data : player -> wins, losses, ties
    ws_games,  \* WordScramble.active_games for the one channel : the task whose game is registered
    ws,        \* the game_data dict and the game_timeout task of each task's wordscramble coroutine
    duel,      \* the locals of each task's play_rps_duel call
    call       \* a method called on its own : its name, its arguments, what it returned

ledgerVars == <<file, cache, heap>>
bjVars == <<ranks, bj_games, bj>>
tttVars == <<cells, ttt_games, pending_challenges, ttt>>
memVars == <<mem_games, mem>>
ngVars == <<ng_games, ng>>
snVars == <<sn_games, sn>>
hmVars == <<hm_games, hm>>
wsVars == <<ws_games, ws>>
rpsVars == <<rps_games, rps_stats>>
lateVars == <<hmVars, rpsVars, wsVars, duel>>
moreVars == <<ngVars, snVars, lateVars>>
gameVars == <<bjVars, tttVars, memVars, moreVars, call>>
vars == <<file, cache, heap, task, now, ncmd, start_bal, loot, gameVars>>

NoFile == [absent |-> TRUE]
NoGame == [nogame |-> TRUE]
NoRec == [unused |-> TRUE]
NoCall == [fn |-> "none", arg |-> <<>>, ret |-> 0]

Max(a, b) == IF a >= b THEN a ELSE b
Min(a, b) == IF a <= b THEN a ELSE b

\* The dict literal every handler uses for a player without a record.
\* boosters is the list under the key "boosters", which the code creates
\* empty wherever it finds the key missing.
NewRecord ==
    [balance |-> 0, inventory |-> <<>>, last_daily |-> 0, daily_streak |-> 0, boosters |-> <<>>]

Idle == [pc |-> "idle", op |-> "none", who |-> "none", other |-> "none",
         amt |-> 0, item |-> "none", data |-> 0, data2 |-> 0,
         sub |-> "none", sub_who |-> "none", sub_amt |-> 0,
         res |-> "none", out |-> 0, pre |-> 0, pre2 |-> 0,
         quiet |-> FALSE, at |-> 0, last |-> 0, streak |-> 0]

\* ------------------------------------------------------------ dict heap
Referenced(o, c, tk) ==
    \/ \E p \in Players : c[p] = o
    \/ \E t \in Tasks : tk[t].data = o \/ tk[t].data2 = o

\* Python frees a dict nobody refers to.
Collect(h, c, tk) == [o \in ObjIds |-> IF Referenced(o, c, tk) THEN h[o] ELSE NoRec]

Fresh == CHOOSE o \in ObjIds : heap[o] = NoRec /\ \A q \in ObjIds : heap[q] = NoRec => o <= q
HasFresh == \E o \in ObjIds : heap[o] = NoRec

\* The balance a reader of the store sees for player p: the cached dict if
\* there is one, else the file, else 0 (data.get("balance", 0) of {}).
Balance(p) ==
    IF cache[p] # 0 THEN heap[cache[p]].balance
    ELSE IF file[p] # NoFile THEN file[p].balance ELSE 0

\* DatabaseManager._get_data, JSON backend: the cached dict, else the file
\* loaded into a new cached dict, else {} (object 0), which is not cached.
GetLoads(p) == cache[p] = 0 /\ file[p] # NoFile
GetRef(p) == IF cache[p] # 0 THEN cache[p] ELSE IF file[p] # NoFile THEN Fresh ELSE 0
GetCache(p) == IF GetLoads(p) THEN [cache EXCEPT ![p] = Fresh] ELSE cache
GetHeap(p) == IF GetLoads(p) THEN [heap EXCEPT ![Fresh] = file[p]] ELSE heap

\* `if not data: data = {...}` : a new private dict when the read was empty.
EnsureRef(d) == IF d = 0 THEN Fresh ELSE d
EnsureHeap(d, h) == IF d = 0 THEN [h EXCEPT ![Fresh] = NewRecord] ELSE h

\* DatabaseManager._update_data: the dict becomes the cache entry and its
\* content is dumped to the file.
PutCache(p, d, c) == [c EXCEPT ![p] = d]
PutFile(p, d, h, f) == [f EXCEPT ![p] = h[d]]

\* The count of lootboxes after a step that leaves the frames tk: a
\* purchase appends a lootbox when shop buy goes on to ask whether to open
\* it (shop.py 494), and open_lootbox pays when it calls add_balance (562),
\* from the purchase or from `inventory use`.
NoLog == [nolog |-> TRUE]
Logged(tk) ==
    IF loot = NoLog THEN loot
    ELSE [p \in Players |->
            [bought |-> loot[p].bought + Cardinality({t \in Tasks :
                            /\ tk[t].who = p
                            /\ task[t].pc = "buy_check"
                            /\ tk[t].pc = "buy_wait"}),
             opened |-> loot[p].opened + Cardinality({t \in Tasks :
                            /\ tk[t].who = p
                            /\ task[t].pc \in {"buy_wait", "use_find"}
                            /\ task[t].sub = "none"
                            /\ tk[t].sub = "add_balance"})]]

\* The positions at which the model divides a stretch of a handler that
\* the event loop runs in one piece: the awaits that separate the steps
\* before and after are ledger calls, or there is no await at all.
LedgerPcs ==
    {"daily_claim", "work_put", "balance_show", "pay_sender", "pay_transfer",
     "pay_put_recipient", "gamble_roll", "buy_check", "use_find", "boosters_show",
     "ttt_debit2", "ttt_refund2", "rps_tie2", "duel_debit2", "duel_credit", "hm_end"}

\* Coroutine t is inside such a stretch.  Besides the positions above: the
\* `finally` of a round against the bot follows update_stats at once
\* (rps.py), and after a tictactoe timeout the refunds and the `del` follow
\* the timeout message at once (tictactoe.py 452-467).
InCall(t) ==
    \/ task[t].pc \in LedgerPcs
    \/ /\ task[t].pc = "rps_cleanup"
       /\ task[t].other \notin Players
       /\ task[t].item \in {"win", "tie", "loss"}
    \/ /\ task[t].pc = "ttt_cleanup"
       /\ ttt[t] # NoGame
       /\ ttt[t].timed_out

\* The event loop runs a coroutine up to its next chat call, wait or sleep
\* before it runs another: a step to the frames tk is a step of the
\* coroutine that is inside a stretch, if one is.
Turn(tk) == \A t \in Tasks : InCall(t) => tk[t] # task[t]

\* No coroutine is inside a stretch: a task other than the handlers may run.
LoopFree == \A t \in Tasks : ~InCall(t)

\* One step of a handler: its frame, the cache, the heap and the files after it.
Step(tk, c, h, f) ==
    /\ Turn(tk)
    /\ task' = tk
    /\ cache' = c
    /\ heap' = Collect(h, c, tk)
    /\ file' = f
    /\ loot' = Logged(tk)
    /\ UNCHANGED start_bal

\* No coroutine runs in slot t: none was started, or the last one returned.
Free(t) == task[t].pc \in {"idle", "done"}

\* The handler returns: its locals die, its result stays to be looked at.
Done(fr, r) == [fr EXCEPT !.pc = "done", !.res = r, !.data = 0, !.data2 = 0]

\* A command is dispatched: frame fr runs up to `await get_economy_data(who)`.
StartGet(t, fr, nextpc) ==
    LET tk == [task EXCEPT ![t] = [fr EXCEPT !.pc = nextpc, !.data = GetRef(fr.who),
                                             !.pre = Balance(fr.who),
                                             !.pre2 = IF fr.other \in Players
                                                      THEN Balance(fr.other) ELSE 0]]
    IN  /\ Free(t)
        /\ ncmd > 0
        /\ GetLoads(fr.who) => HasFresh
        /\ Step(tk, GetCache(fr.who), GetHeap(fr.who), file)
        /\ ncmd' = ncmd - 1

\* `if not data: data = {...}; await update_economy_data(...)` of pay, gamble
\* and shop buy: the new record is stored before the handler goes on.
InitRecord(t) ==
    LET d == Fresh
        h == [heap EXCEPT ![d] = NewRecord]
        tk == [task EXCEPT ![t].data = d]
    IN  /\ HasFresh
        /\ Step(tk, PutCache(task[t].who, d, cache), h, PutFile(task[t].who, d, h, file))

\* ------------------------------------------------- Economy.add_balance etc.
\* The credit written over the balance that was read.
add_balance_from_zero(balance, amount) == amount

\* economy.py 701: data["balance"] = data.get("balance", 0) + amount.
add_balance_value(balance, amount) == balance + amount

remove_balance_unclamped(balance, amount) == balance - amount

remove_balance_value(balance, amount) == Max(0, balance - amount)

Credits == {"add_balance", "add_currency"}
Debits == {"remove_balance", "remove_currency"}

\* economy.py 683-730 (and db.py 99-129 for add_currency / remove_currency):
\* the whole of add_balance / remove_balance called from frame tk[t], which
\* goes on at ret: the record is read, a missing one replaced by the
\* default record, the balance changed, the record stored, True returned
\* (remove_currency: the balance).  None of its awaits gives up the loop.
BalanceCall(tk, t, kind, user, amount, ret) ==
    LET d0 == GetRef(user)
        d == EnsureRef(d0)
        h1 == EnsureHeap(d0, GetHeap(user))
        nb == IF kind \in Credits
              THEN add_balance_value(h1[d].balance, amount)
              ELSE remove_balance_value(h1[d].balance, amount)
        h2 == [h1 EXCEPT ![d].balance = nb]
        r == IF kind \in {"add_balance", "remove_balance"} THEN "True" ELSE "balance"
        fr2 == [tk[t] EXCEPT !.pc = ret, !.sub = kind, !.sub_who = user,
                             !.sub_amt = amount, !.out = nb, !.res = r]
        tk2 == [tk EXCEPT ![t] = IF ret = "done" THEN Done(fr2, r) ELSE fr2]
    IN  /\ cache[user] = 0 => HasFresh
        /\ Step(tk2, PutCache(user, d, GetCache(user)), h2, PutFile(user, d, h2, file))

\* A cog calls add_balance / remove_balance / remove_currency on its own.
BalanceOp(t, kind) ==
    \E u \in Players, a \in Amounts :
        LET fr == [Idle EXCEPT !.op = kind, !.who = u, !.amt = a, !.pre = Balance(u)]
        IN  /\ Free(t)
            /\ ncmd > 0
            /\ BalanceCall([task EXCEPT ![t] = fr], t, kind, u, a, "done")
            /\ ncmd' = ncmd - 1
            /\ UNCHANGED <<now, gameVars>>

add_balance(t) == BalanceOp(t, "add_balance")
remove_balance(t) == BalanceOp(t, "remove_balance")
remove_currency(t) == BalanceOp(t, "remove_currency")

\* ------------------------------------------------------------ Economy.daily
\* economy.py 180-186: the streak after a claim made `since` seconds after
\* the last one.
daily_streak_after(streak, since) ==
    IF since < daily_cooldown * 2 THEN streak + 1 ELSE 1

daily_bonus_before(streak, since) ==
    IF since < daily_cooldown * 2 THEN streak * daily_streak_bonus ELSE 0

\* economy.py 180-186: the streak bonus of that claim.
daily_bonus(streak, since) ==
    IF since < daily_cooldown * 2 THEN (streak + 1) * daily_streak_bonus ELSE 0

too_soon_inclusive(since) == since <= daily_cooldown

\* economy.py 154: `if time_since_last < self.daily_cooldown`.
too_soon(since) == since < daily_cooldown

daily(t) ==
    /\ \E u \in Players :
          StartGet(t, [Idle EXCEPT !.op = "daily", !.who = u], "daily_claim")
    /\ UNCHANGED <<now, gameVars>>

\* economy.py 141-197: the claim made when the clock reads one of `times`.
\* The frame keeps the handler's locals now, last_daily, base_reward (amt)
\* and total_reward (out), and the streak it found.
DailyClaim(t, times) ==
    LET fr == task[t]
        d == EnsureRef(fr.data)
        h1 == EnsureHeap(fr.data, heap)
    IN  /\ fr.pc = "daily_claim"
        /\ fr.data = 0 => HasFresh
        /\ \E n \in times, base \in {daily_min, daily_max} :
              LET since == n - h1[d].last_daily
                  reward == base + daily_bonus(h1[d].daily_streak, since)
                  h2 == [h1 EXCEPT ![d].balance = h1[d].balance + reward,
                                   ![d].last_daily = n,
                                   ![d].daily_streak =
                                       daily_streak_after(h1[d].daily_streak, since)]
                  seen == [fr EXCEPT !.at = n, !.last = h1[d].last_daily,
                                     !.streak = h1[d].daily_streak]
              IN  /\ n >= now
                  /\ now' = n
                  /\ IF too_soon(since)
                     THEN Step([task EXCEPT ![t] = Done(seen, "TooSoon")], cache, heap, file)
                     ELSE Step([task EXCEPT ![t] =
                                    Done([seen EXCEPT !.out = reward, !.amt = base], "ok")],
                               PutCache(fr.who, d, cache), h2,
                               PutFile(fr.who, d, h2, file))
        /\ UNCHANGED <<ncmd, gameVars>>

daily_claim(t) == DailyClaim(t, Times)

\* The clock readings of a run of daily claims: around one and two cooldowns
\* after a claim.
DailyTimes ==
    {Epoch + s : s \in {0, 86399, 86400, 90000, 172799, 172800, 176400, 180000, 262800}}

daily_claim_near(t) == DailyClaim(t, DailyTimes)

\* ------------------------------------------------------------- Economy.work
work(t) ==
    /\ \E u \in Players, earnings \in {work_min, work_max} :
          StartGet(t, [Idle EXCEPT !.op = "work", !.who = u, !.amt = earnings], "work_put")
    /\ UNCHANGED <<now, gameVars>>

work_put(t) ==
    LET fr == task[t]
        d == EnsureRef(fr.data)
        h1 == EnsureHeap(fr.data, heap)
        h2 == [h1 EXCEPT ![d].balance = h1[d].balance + fr.amt]
    IN  /\ fr.pc = "work_put"
        /\ fr.data = 0 => HasFresh
        /\ Step([task EXCEPT ![t] = Done(fr, "ok")],
                PutCache(fr.who, d, cache), h2, PutFile(fr.who, d, h2, file))
        /\ UNCHANGED <<now, ncmd, gameVars>>

\* ---------------------------------------------------------- Economy.balance
\* economy.py 44-69: `!balance` or `!balance @member`; the target is the
\* member, if one was named, else the author, and its record is read.
\* (`balance` is also a local of other handlers, hence the longer name.)
balance_command(t) ==
    /\ \E u \in Players, member \in Players \cup {"nobody"} :
          LET target == IF member \in Players THEN member ELSE u
              fr == [Idle EXCEPT !.op = "balance", !.who = u, !.other = member,
                                 !.pc = "balance_show", !.data = GetRef(target),
                                 !.pre = Balance(target)]
          IN  /\ Free(t)
              /\ ncmd > 0
              /\ GetLoads(target) => HasFresh
              /\ Step([task EXCEPT ![t] = fr], GetCache(target), GetHeap(target), file)
              /\ ncmd' = ncmd - 1
    /\ UNCHANGED <<now, gameVars>>

\* economy.py 71-113: a target without a record gets the default record,
\* stored by update_economy_data; the balance of the record read is shown.
balance_show(t) ==
    LET fr == task[t]
        target == IF fr.other \in Players THEN fr.other ELSE fr.who
        d == EnsureRef(fr.data)
        h == EnsureHeap(fr.data, heap)
        shown == Done([fr EXCEPT !.out = h[d].balance], "ok")
    IN  /\ fr.pc = "balance_show"
        /\ IF fr.data = 0
           THEN /\ HasFresh
                /\ Step([task EXCEPT ![t] = shown], PutCache(target, d, cache), h,
                        PutFile(target, d, h, file))
           ELSE Step([task EXCEPT ![t] = shown], cache, heap, file)
        /\ UNCHANGED <<now, ncmd, gameVars>>

\* ------------------------------------------------------ Economy.leaderboard
\* The limits given to `leaderboard`; none given is 10.
LeaderboardLimits == {0, 1, 10, 30}

\* economy.py 437-440: a limit below 1 becomes 10, one above 25 becomes 25.
leaderboard_limit(limit) == IF limit < 1 THEN 10 ELSE IF limit > 25 THEN 25 ELSE limit

\* The players with a record file, db.py 152-154, in the orders os.listdir
\* may list the files.
Listings ==
    LET listed == {p \in Players : file[p] # NoFile}
    IN  {names \in [1..Cardinality(listed) -> listed] :
            \A i, j \in 1..Cardinality(listed) : names[i] = names[j] => i = j}

\* The dict objects heap h has no record in, and the first of them.
Unused(h) == {o \in ObjIds : h[o] = NoRec}
FreshIn(h) == CHOOSE o \in Unused(h) : \A q \in Unused(h) : o <= q

\* db.py 152-161: _get_data for each file listed, the cache c and the heap
\* h after it: a record not cached is loaded into a new cached dict.
RECURSIVE LoadAll(_, _, _)
LoadAll(names, c, h) ==
    IF names = <<>> THEN [cache |-> c, heap |-> h]
    ELSE LET p == Head(names)
         IN  IF c[p] = 0
             THEN LoadAll(Tail(names), [c EXCEPT ![p] = FreshIn(h)],
                          [h EXCEPT ![FreshIn(h)] = file[p]])
             ELSE LoadAll(Tail(names), c, h)

\* Economy.leaderboard, 427-499, and DatabaseManager.get_leaderboard, db.py
\* 131-166: every record file of the guild is read through _get_data in
\* one stretch, the entries are sorted by balance, the first `limit` of
\* them are shown (out: how many, pre: the balance at the top), or the
\* message that nobody has coins.  No record and no file is written.
leaderboard(t) ==
    /\ \E u \in Players, limit \in LeaderboardLimits, names \in Listings :
          LET loaded == LoadAll(names, cache, heap)
              balances == {loaded.heap[loaded.cache[names[i]]].balance : i \in 1..Len(names)}
              top == IF names = <<>> THEN 0
                     ELSE CHOOSE b \in balances : \A b2 \in balances : b >= b2
              fr == [Idle EXCEPT !.op = "leaderboard", !.who = u, !.amt = limit,
                                 !.out = Min(leaderboard_limit(limit), Len(names)),
                                 !.pre = top]
          IN  /\ Free(t)
              /\ ncmd > 0
              /\ Cardinality({p \in Players : GetLoads(p)}) <= Cardinality(Unused(heap))
              /\ Step([task EXCEPT ![t] = Done(fr, IF names = <<>> THEN "empty" ELSE "ok")],
                      loaded.cache, loaded.heap, file)
              /\ ncmd' = ncmd - 1
    /\ UNCHANGED <<now, gameVars>>

\* -------------------------------------------------------------- Economy.pay
\* economy.py 309-352: the argument checks, then the read of the sender.
pay(t) ==
    /\ \E u \in Players, member \in Players, amount \in PayAmounts :
          LET fr == [Idle EXCEPT !.op = "pay", !.who = u, !.other = member, !.amt = amount]
          IN  IF amount <= 0 \/ member = u
              THEN /\ Free(t)
                   /\ ncmd > 0
                   /\ ncmd' = ncmd - 1
                   /\ Step([task EXCEPT ![t] =
                               Done([fr EXCEPT !.pre = Balance(u), !.pre2 = Balance(member)],
                                    "invalid")],
                           cache, heap, file)
              ELSE StartGet(t, fr, "pay_sender")
    /\ UNCHANGED <<now, gameVars>>

\* economy.py 354-371: a sender without a record gets one (stored at once);
\* a sender with too little is turned away; else the recipient is read.
pay_sender(t) ==
    LET fr == task[t]
    IN  /\ fr.pc = "pay_sender"
        /\ IF fr.data = 0
           THEN InitRecord(t)
           ELSE IF heap[fr.data].balance < fr.amt
           THEN Step([task EXCEPT ![t] = Done(fr, "insufficient")], cache, heap, file)
           ELSE /\ GetLoads(fr.other) => HasFresh
                /\ Step([task EXCEPT ![t].pc = "pay_transfer", ![t].data2 = GetRef(fr.other)],
                        GetCache(fr.other), GetHeap(fr.other), file)
        /\ UNCHANGED <<now, ncmd, gameVars>>

pay_debit_only(sender, recipient, amount) == <<sender - amount, recipient>>

\* economy.py 378-379: the two balances after the transfer.
pay_balances(sender, recipient, amount) == <<sender - amount, recipient + amount>>

\* economy.py 373-382: both dicts are changed, then the sender's is stored.
pay_transfer(t) ==
    LET fr == task[t]
        r == EnsureRef(fr.data2)
        h1 == EnsureHeap(fr.data2, heap)
        nb == pay_balances(h1[fr.data].balance, h1[r].balance, fr.amt)
        h2 == [h1 EXCEPT ![fr.data].balance = nb[1]]
        h3 == [h2 EXCEPT ![r].balance = nb[2]]
    IN  /\ fr.pc = "pay_transfer"
        /\ fr.data2 = 0 => HasFresh
        /\ Step([task EXCEPT ![t].pc = "pay_put_recipient", ![t].data2 = r],
                PutCache(fr.who, fr.data, cache), h3, PutFile(fr.who, fr.data, h3, file))
        /\ UNCHANGED <<now, ncmd, gameVars>>

\* economy.py 383: the recipient's dict is stored.
pay_put_recipient(t) ==
    LET fr == task[t]
    IN  /\ fr.pc = "pay_put_recipient"
        /\ Step([task EXCEPT ![t] = Done(fr, "ok")],
                PutCache(fr.other, fr.data2, cache), heap,
                PutFile(fr.other, fr.data2, heap, file))
        /\ UNCHANGED <<now, ncmd, gameVars>>

\* ----------------------------------------------------------- Economy.gamble
gamble_payout_strict(bet, roll) ==
    IF roll < 30 THEN 0
    ELSE IF roll < 50 THEN bet
    ELSE IF roll < 70 THEN (3 * bet) \div 2
    ELSE IF roll < 90 THEN 2 * bet
    ELSE IF roll < 99 THEN 3 * bet
    ELSE 5 * bet

\* economy.py 584-617: int(bet_amount * multiplier) for the roll's bracket.
gamble_payout(bet, roll) ==
    IF roll <= 30 THEN 0
    ELSE IF roll <= 50 THEN bet
    ELSE IF roll <= 70 THEN (3 * bet) \div 2
    ELSE IF roll <= 90 THEN 2 * bet
    ELSE IF roll <= 99 THEN 3 * bet
    ELSE 5 * bet

\* `!gamble all`, `!gamble half`, `!gamble <n>`
GambleArgs == {<<"all", 0>>, <<"half", 0>>} \cup {<<"int", n>> : n \in PayAmounts}

gamble(t) ==
    /\ \E u \in Players, arg \in GambleArgs :
          StartGet(t, [Idle EXCEPT !.op = "gamble", !.who = u, !.item = arg[1],
                                   !.amt = arg[2]],
                   "gamble_roll")
    /\ UNCHANGED <<now, gameVars>>

\* economy.py 536-621, the dice showing one of `rolls`.
GambleRoll(t, rolls) ==
    LET fr == task[t]
        balance == heap[fr.data].balance
        bet == IF fr.item = "all" THEN balance
               ELSE IF fr.item = "half" THEN balance \div 2 ELSE fr.amt
    IN  /\ fr.pc = "gamble_roll"
        /\ IF fr.data = 0
           THEN InitRecord(t)
           ELSE IF bet <= 0 \/ bet > balance
           THEN Step([task EXCEPT ![t] = Done(fr, "invalid")], cache, heap, file)
           ELSE \E roll \in rolls :
                   LET h2 == [heap EXCEPT ![fr.data].balance =
                                  balance + (gamble_payout(bet, roll) - bet)]
                   IN  Step([task EXCEPT ![t] = Done([fr EXCEPT !.out = roll, !.sub_amt = bet],
                                                     "ok")],
                            PutCache(fr.who, fr.data, cache), h2,
                            PutFile(fr.who, fr.data, h2, file))
        /\ UNCHANGED <<now, ncmd, gameVars>>

gamble_roll(t) == GambleRoll(t, Rolls)

\* random.randint(1, 100)
gamble_roll_any(t) == GambleRoll(t, 1..100)

\* ------------------------------------------------------------ Shop.shop_buy
\* shop.py 19-118: the two catalogue entries the model buys.
ItemPrice(item) ==
    IF item = "lootbox_common" THEN lootbox_price
    ELSE IF item = "daily_booster" THEN booster_price ELSE role_price
ItemType(item) ==
    IF item = "lootbox_common" THEN "lootbox"
    ELSE IF item = "daily_booster" THEN "booster" ELSE "role"

\* shop.py 590-603: the entry process_booster_purchase appends for the
\* daily booster bought when the clock reads `at`.
BoosterEntry(at) ==
    [id |-> "daily_booster", effect |-> "daily_multiplier",
     expires_at |-> at + booster_days * 86400, active |-> TRUE]

\* shop.py 204-237: look the item up, then read the buyer's record.
ShopBuy(t, items) ==
    /\ \E u \in Players, item \in items :
          LET fr == [Idle EXCEPT !.op = "shop_buy", !.who = u, !.item = item]
          IN  IF item = "unknown"
              THEN /\ Free(t)
                   /\ ncmd > 0
                   /\ ncmd' = ncmd - 1
                   /\ Step([task EXCEPT ![t] = Done([fr EXCEPT !.pre = Balance(u)],
                                                    "not_found")],
                           cache, heap, file)
              ELSE StartGet(t, fr, "buy_check")
    /\ UNCHANGED <<now, gameVars>>

shop_buy(t) == ShopBuy(t, Items)
shop_buy_booster(t) == ShopBuy(t, {"daily_booster"})
shop_buy_lootbox(t) == ShopBuy(t, {"lootbox_common"})

\* shop.py 271-273: `data["balance"] -= price`, then the dict is stored.
BuyDeduct(t) ==
    LET fr == task[t]
        h2 == [heap EXCEPT ![fr.data].balance =
                   heap[fr.data].balance - ItemPrice(fr.item)]
    IN  Step([task EXCEPT ![t] = Done(fr, "ok")],
             PutCache(fr.who, fr.data, cache), h2, PutFile(fr.who, fr.data, h2, file))

\* shop.py 239-265 and 438-512: the balance check, then the purchase by type:
\* a role is created (or refused), a lootbox goes into the inventory of the
\* dict in hand and the buyer is asked whether to open it, a booster is
\* appended, active, to the boosters of the dict in hand (582-613).
buy_check(t) ==
    LET fr == task[t]
    IN  /\ fr.pc = "buy_check"
        /\ IF fr.data = 0
           THEN InitRecord(t)
           ELSE IF heap[fr.data].balance < ItemPrice(fr.item)
           THEN Step([task EXCEPT ![t] = Done(fr, "insufficient")], cache, heap, file)
           ELSE IF ItemType(fr.item) = "role"
           THEN \E granted \in BOOLEAN :
                   IF granted
                   THEN Step([task EXCEPT ![t].pc = "buy_deduct"], cache, heap, file)
                   ELSE Step([task EXCEPT ![t] = Done(fr, "failed")], cache, heap, file)
           ELSE IF ItemType(fr.item) = "booster"
           THEN Step([task EXCEPT ![t].pc = "buy_deduct"], cache,
                     [heap EXCEPT ![fr.data].boosters = Append(@, BoosterEntry(now))], file)
           ELSE Step([task EXCEPT ![t].pc = "buy_wait"], cache,
                     [heap EXCEPT ![fr.data].inventory = Append(@, fr.item)], file)
        /\ UNCHANGED <<now, ncmd, gameVars>>

\* shop.py 522-539 and 541-562: the reaction, or none within 30 s.
buy_wait(t) ==
    LET fr == task[t]
    IN  /\ fr.pc = "buy_wait"
        /\ \E choice \in {"open", "keep", "timeout"} :
              IF choice = "open"
              THEN \E coins \in {lootbox_min_coins, lootbox_max_coins} :
                      BalanceCall(task, t, "add_balance", fr.who, coins, "buy_deduct")
              ELSE IF choice = "keep"
              THEN BuyDeduct(t)
              ELSE Step([task EXCEPT ![t].pc = "buy_deduct"], cache, heap, file)
        /\ UNCHANGED <<now, ncmd, gameVars>>

buy_deduct(t) ==
    /\ task[t].pc = "buy_deduct"
    /\ BuyDeduct(t)
    /\ UNCHANGED <<now, ncmd, gameVars>>

\* ------------------------------------------------------ Inventory.inventory
\* Inventory.inventory, inventory.py 17-168: the caller's record is read
\* through get_economy_data (40) and the inventory shown, or the message
\* that it is empty (42-49); nothing is written.  The inventories of the
\* model fit one page of items_per_page = 5 items, so no page is turned.
inventory_command(t) ==
    /\ \E u \in Players :
          LET data == GetRef(u)
              h == GetHeap(u)
              empty == data = 0 \/ h[data].inventory = <<>>
              fr == [Idle EXCEPT !.op = "inventory", !.who = u, !.pre = Balance(u),
                                 !.out = IF empty THEN 0 ELSE Len(h[data].inventory)]
          IN  /\ Free(t)
              /\ ncmd > 0
              /\ GetLoads(u) => HasFresh
              /\ Step([task EXCEPT ![t] = Done(fr, IF empty THEN "empty" ELSE "ok")],
                      GetCache(u), h, file)
              /\ ncmd' = ncmd - 1
    /\ UNCHANGED <<now, gameVars>>

\* ------------------------------------------------- Inventory.inventory_gift
GiftItems == {"lootbox_common", "lootbox_rare", "unknown"}

\* The inventory a reader of the store sees for player p.
Inventory(p) ==
    IF cache[p] # 0 THEN heap[cache[p]].inventory
    ELSE IF file[p] # NoFile THEN file[p].inventory ELSE <<>>

\* inventory.py 306-314: the places of the items with this id.
Matches(inventory, item_id) == {i \in 1..Len(inventory) : inventory[i] = item_id}

\* list.pop leaving the list as it is.
Pop_keeps(list, i) == list

\* list.pop(i), i counted from 1.
Pop(list, i) == SubSeq(list, 1, i - 1) \o SubSeq(list, i + 1, Len(list))

\* inventory.py 255-345: the recipient is checked; the sender's record is
\* read and the first item with this id looked up (item_index, counted
\* from 1); the recipient's record is read, or made if there is none; the
\* item is popped from the sender's list and appended to the recipient's,
\* and both records are stored.  No await of this stretch gives up the
\* loop.  The frame keeps item_index in amt and the two dicts.
inventory_gift(t) ==
    /\ \E u \in Players, member \in Players, item_id \in GiftItems :
          LET fr == [Idle EXCEPT !.op = "inventory_gift", !.who = u, !.other = member,
                                 !.item = item_id, !.pre = Balance(u),
                                 !.pre2 = Balance(member)]
              sender_data == GetRef(u)
              c1 == GetCache(u)
              h1 == GetHeap(u)
              found == IF sender_data = 0 THEN {}
                       ELSE Matches(h1[sender_data].inventory, item_id)
              item_index == CHOOSE i \in found : \A j \in found : i <= j
              unused == {o \in ObjIds : h1[o] = NoRec}
              made == CHOOSE o \in unused : \A q \in unused : o <= q
              recipient_data == IF c1[member] # 0 THEN c1[member] ELSE made
              h2 == IF c1[member] # 0 THEN h1
                    ELSE [h1 EXCEPT ![made] = IF file[member] # NoFile THEN file[member]
                                              ELSE NewRecord]
              h3 == [h2 EXCEPT ![sender_data].inventory = Pop(@, item_index)]
              h4 == [h3 EXCEPT ![recipient_data].inventory = Append(@, item_id)]
              c2 == PutCache(member, recipient_data, PutCache(u, sender_data, c1))
              f2 == PutFile(member, recipient_data, h4, PutFile(u, sender_data, h4, file))
              refuse(r, c, h) == Step([task EXCEPT ![t] = Done(fr, r)], c, h, file)
          IN  /\ Free(t)
              /\ ncmd > 0
              /\ ncmd' = ncmd - 1
              /\ IF member = u
                 THEN refuse("invalid_recipient", cache, heap)
                 ELSE /\ GetLoads(u) => HasFresh
                      /\ IF sender_data = 0 \/ h1[sender_data].inventory = <<>>
                         THEN refuse("empty", c1, h1)
                         ELSE IF found = {}
                         THEN refuse("not_found", c1, h1)
                         ELSE /\ c1[member] = 0 => unused # {}
                              /\ Step([task EXCEPT ![t] =
                                          [fr EXCEPT !.pc = "gift_sent", !.amt = item_index,
                                                     !.data = sender_data,
                                                     !.data2 = recipient_data, !.res = "ok"]],
                                      c2, h4, f2)
    /\ UNCHANGED <<now, gameVars>>

\* inventory.py 347-367: "Gift Sent" has been sent, and the notice to the
\* recipient; the handler returns.
gift_sent(t) ==
    /\ task[t].pc = "gift_sent"
    /\ Step([task EXCEPT ![t] = Done(task[t], "ok")], cache, heap, file)
    /\ UNCHANGED <<now, ncmd, gameVars>>

\* -------------------------------------------------- Inventory.inventory_use
\* shop.py 75-118: the "type" of the catalogue items the inventory holds.
InvType(item_id) ==
    IF item_id \in {"lootbox_common", "lootbox_rare"} THEN "lootbox"
    ELSE IF item_id = "daily_booster" THEN "booster" ELSE "item"

UseItems == {"lootbox_common", "lootbox_rare", "daily_booster", "unknown"}

\* inventory.py 171-193: the player's record is read.
InventoryUse(t, items) ==
    /\ \E u \in Players, item_id \in items :
          StartGet(t, [Idle EXCEPT !.op = "inventory_use", !.who = u, !.item = item_id],
                   "use_find")
    /\ UNCHANGED <<now, gameVars>>

inventory_use(t) == InventoryUse(t, UseItems)
inventory_use_lootbox(t) == InventoryUse(t, {"lootbox_common"})

\* use_booster, 399-404: the places, from position `from` on, of the active
\* boosters with the effect of the daily booster.
ActiveSame(boosters, from) ==
    {i \in from..Len(boosters) :
        boosters[i].effect = "daily_multiplier" /\ boosters[i].active}

\* use_booster, 392-495: the loop over user_data["boosters"] goes on at
\* position `from` of the boosters of heap h.  At an active booster with the
\* same effect the player is asked whether to replace it; after the loop
\* the booster is appended, active, and the message sent.
UseBooster(t, fr, h, from) ==
    LET hits == ActiveSame(h[fr.data].boosters, from)
        i == CHOOSE k \in hits : \A j \in hits : k <= j
    IN  IF hits # {}
        THEN Step([task EXCEPT ![t] = [fr EXCEPT !.pc = "use_confirm", !.last = i]],
                  cache, h, file)
        ELSE Step([task EXCEPT ![t] = [fr EXCEPT !.pc = "use_remove", !.last = 0]],
                  cache, [h EXCEPT ![fr.data].boosters = Append(@, BoosterEntry(now))], file)

\* inventory.py 195-237: the first item with this id is looked up and its
\* place kept in item_index (amt, counted from 1); a lootbox is opened by
\* Shop.open_lootbox (377-390 and shop.py 541-562, the inventory entry
\* having no min_coins and max_coins the defaults 50 and 300 apply), a
\* booster activated by use_booster.
use_find(t) ==
    LET fr == task[t]
        found == IF fr.data = 0 THEN {} ELSE Matches(heap[fr.data].inventory, fr.item)
        item_index == CHOOSE i \in found : \A j \in found : i <= j
        fr2 == [fr EXCEPT !.amt = item_index]
    IN  /\ fr.pc = "use_find"
        /\ IF fr.data = 0 \/ heap[fr.data].inventory = <<>>
           THEN Step([task EXCEPT ![t] = Done(fr, "empty")], cache, heap, file)
           ELSE IF found = {}
           THEN Step([task EXCEPT ![t] = Done(fr, "not_found")], cache, heap, file)
           ELSE IF InvType(fr.item) = "lootbox"
           THEN \E coins \in {lootbox_min_coins, lootbox_max_coins} :
                   BalanceCall([task EXCEPT ![t] = fr2], t, "add_balance", fr.who, coins,
                               "use_remove")
           ELSE IF InvType(fr.item) = "booster"
           THEN UseBooster(t, fr2, heap, 1)
           ELSE Step([task EXCEPT ![t] = Done(fr, "unusable")], cache, heap, file)
        /\ UNCHANGED <<now, ncmd, gameVars>>

\* use_booster, 427-455: the reaction, or none within 30 s.  Confirmed, the
\* existing booster is deactivated and the loop goes on.
use_confirm(t) ==
    LET fr == task[t]
    IN  /\ fr.pc = "use_confirm"
        /\ \E reply \in {"yes", "no", "timeout"} :
              IF reply = "yes"
              THEN UseBooster(t, fr, [heap EXCEPT ![fr.data].boosters[fr.last].active = FALSE],
                              fr.last + 1)
              ELSE Step([task EXCEPT ![t] = Done(fr, IF reply = "no" THEN "cancelled"
                                                                     ELSE "timeout")],
                        cache, heap, file)
        /\ UNCHANGED <<now, ncmd, gameVars>>

\* inventory.py 239-244: after open_lootbox or use_booster has sent its
\* message and returned True, the item at item_index is popped from the
\* list (IndexError, caught at 246, if the list has become shorter) and the
\* record is stored.
use_remove(t) ==
    LET fr == task[t]
        h2 == [heap EXCEPT ![fr.data].inventory = Pop(@, fr.amt)]
    IN  /\ fr.pc = "use_remove"
        /\ IF fr.amt > Len(heap[fr.data].inventory)
           THEN Step([task EXCEPT ![t] = Done(fr, "error")], cache, heap, file)
           ELSE Step([task EXCEPT ![t] = Done(fr, "ok")],
                     PutCache(fr.who, fr.data, cache), h2, PutFile(fr.who, fr.data, h2, file))
        /\ UNCHANGED <<now, ncmd, gameVars>>

\* `!boosters` is sent when the clock reads one of these: before and after
\* the week of a booster bought at Epoch is over.
ViewTimes == {Epoch + 400000, Epoch + 700000}

\* Inventory.boosters, 497-519: the player's record is read.
boosters(t) ==
    /\ \E u \in Players :
          StartGet(t, [Idle EXCEPT !.op = "boosters", !.who = u], "boosters_show")
    /\ UNCHANGED <<now, gameVars>>

\* inventory.py 521-593: without a record or with no boosters the message
\* is sent; else every active booster whose expires_at is not after
\* int(time.time()) is set inactive in the dict in hand, the record is
\* stored if there was one, and the boosters still active are shown.
boosters_show(t) ==
    LET fr == task[t]
        shown == [task EXCEPT ![t] = Done(fr, "shown")]
    IN  /\ fr.pc = "boosters_show"
        /\ \E current_time \in ViewTimes :
              /\ current_time >= now
              /\ now' = current_time
              /\ IF fr.data = 0 \/ heap[fr.data].boosters = <<>>
                 THEN Step(shown, cache, heap, file)
                 ELSE LET bs == heap[fr.data].boosters
                          expired_boosters ==
                              {i \in 1..Len(bs) :
                                  bs[i].active /\ bs[i].expires_at <= current_time}
                          h2 == [heap EXCEPT ![fr.data].boosters =
                                    [i \in 1..Len(bs) |->
                                        IF i \in expired_boosters
                                        THEN [bs[i] EXCEPT !.active = FALSE] ELSE bs[i]]]
                      IN  IF expired_boosters # {}
                          THEN Step(shown, PutCache(fr.who, fr.data, cache), h2,
                                    PutFile(fr.who, fr.data, h2, file))
                          ELSE Step(shown, cache, heap, file)
        /\ UNCHANGED <<ncmd, gameVars>>

\* ================================================================ Blackjack
min_bet == 10
max_bet == 1000

\* `!blackjack` (bet None), `!blackjack <n>`
BjBets == {5, 50, 1001}
BjBetArgs == {<<"none", 0>>} \cup {<<"int", n>> : n \in BjBets}

\* Card.blackjack_value
blackjack_value(value) ==
    IF value = 1 THEN 11 ELSE IF value >= 10 THEN 10 ELSE value

RECURSIVE SumValues(_)
SumValues(hand) ==
    IF hand = <<>> THEN 0 ELSE blackjack_value(Head(hand)) + SumValues(Tail(hand))

\* `while value > 21 and aces > 0: value -= 10; aces -= 1`
RECURSIVE AdjustAces(_, _)
AdjustAces(value, aces) ==
    IF value > 21 /\ aces > 0 THEN AdjustAces(value - 10, aces - 1) ELSE value

get_hand_value_all_aces(hand) ==
    IF SumValues(hand) > 21
    THEN SumValues(hand) - 10 * Cardinality({i \in DOMAIN hand : hand[i] = 1})
    ELSE SumValues(hand)

\* BlackjackGame.get_hand_value
get_hand_value(hand) ==
    AdjustAces(SumValues(hand), Cardinality({i \in DOMAIN hand : hand[i] = 1}))

\* BlackjackGame.is_blackjack
is_blackjack(hand) ==
    /\ Len(hand) = 2
    /\ \/ hand[1] = 1 /\ blackjack_value(hand[2]) >= 10
       \/ hand[2] = 1 /\ blackjack_value(hand[1]) >= 10

\* BlackjackGame.check_game_over: the game after the call.
check_game_over(g) ==
    LET player_value == get_hand_value(g.player_hand)
        dealer_value == get_hand_value(g.dealer_hand)
        over(r) == [g EXCEPT !.result = r, !.game_over = TRUE]
    IN  IF is_blackjack(g.player_hand) /\ is_blackjack(g.dealer_hand) THEN over("push")
        ELSE IF is_blackjack(g.player_hand) THEN over("blackjack")
        ELSE IF is_blackjack(g.dealer_hand) THEN over("dealer_blackjack")
        ELSE IF player_value > 21 THEN over("bust")
        ELSE IF g.player_stood
        THEN IF dealer_value > 21 THEN over("dealer_bust")
             ELSE IF dealer_value > player_value THEN over("dealer_wins")
             ELSE IF dealer_value < player_value THEN over("player_wins")
             ELSE over("push")
        ELSE g

\* BlackjackGame.calculate_reward
calculate_reward(g) ==
    IF g.result = "blackjack" THEN (5 * g.bet) \div 2
    ELSE IF g.result \in {"player_wins", "dealer_bust"} THEN g.bet * 2
    ELSE IF g.result = "push" THEN g.bet
    ELSE 0

\* Deck.deal: a 52-card deck holds four cards of every rank.
Dealt(ph, dh, c) ==
    Cardinality({i \in DOMAIN ph : ph[i] = c}) + Cardinality({i \in DOMAIN dh : dh[i] = c})
Dealable(ph, dh) == {c \in ranks : Dealt(ph, dh, c) < 4}

\* BlackjackGame.player_stand, 164-169: the dealer hands that can come of
\* `while dealer_value < 17: dealer_hand.append(deck.deal())`.
RECURSIVE DealerPlays(_, _)
DealerPlays(ph, dh) ==
    IF get_hand_value(dh) >= 17 THEN {dh}
    ELSE UNION {DealerPlays(ph, Append(dh, c)) : c \in Dealable(ph, dh)}

\* BlackjackGame.__init__ after the four cards c1..c4 came off the deck.
BlackjackGame(player, bet, c1, c2, c3, c4) ==
    [player |-> player, bet |-> bet, player_hand |-> <<c1, c3>>, dealer_hand |-> <<c2, c4>>,
     player_stood |-> FALSE, game_over |-> FALSE, result |-> "None", timed_out |-> FALSE]

\* One step of a blackjack coroutine: the ledger, the registry and its game.
BjStep(t, tk, c, h, f, reg, g) ==
    /\ Step(tk, c, h, f)
    /\ bj_games' = reg
    /\ bj' = [bj EXCEPT ![t] = g]
    /\ UNCHANGED <<now, ranks, tttVars, memVars, moreVars, call>>

\* blackjack.py 229-278: the registry check and the bet checks; then
\* `economy_cog.get_balance` is looked up (278), and class Economy
\* (economy.py 10-732) defines no get_balance: AttributeError, before
\* anything is read or awaited.  Nothing after line 278 is ever run.
BlackjackCmd(t, args) ==
    \E u \in Players, arg \in args :
        LET bet == IF arg[1] = "none" THEN min_bet ELSE arg[2]
            fr == [Idle EXCEPT !.op = "blackjack", !.who = u, !.amt = bet, !.pre = Balance(u)]
            refuse(r) == BjStep(t, [task EXCEPT ![t] = Done(fr, r)], cache, heap, file,
                                bj_games, NoGame)
        IN  /\ Free(t)
            /\ ncmd > 0
            /\ ncmd' = ncmd - 1
            /\ IF bj_games[u] # "none" THEN refuse("already_active")
               ELSE IF bet < min_bet THEN refuse("below_min")
               ELSE IF bet > max_bet THEN refuse("above_max")
               ELSE refuse("AttributeError")

blackjack(t) == BlackjackCmd(t, BjBetArgs)

\* BlackjackGame.player_hit (148-154) with card c on top of the deck: a game
\* that is over or stood is left as it is.
player_hit(g, c) ==
    IF g.game_over \/ g.player_stood THEN g
    ELSE [g EXCEPT !.player_hand = Append(@, c)]

\* BlackjackGame.player_stand (156-170) with the dealer ending on hand dh:
\* a game that is over or stood is left as it is.
player_stand(g, dh) ==
    IF g.game_over \/ g.player_stood THEN g
    ELSE [g EXCEPT !.player_stood = TRUE, !.dealer_hand = dh]

\* What a call on a BlackjackGame object leaves alone.
tableRest == <<file, cache, heap, task, now, ncmd, start_bal, loot, ranks, bj_games,
               tttVars, memVars, moreVars>>

\* BlackjackGame(player, bet), 69-87: four cards off a shuffled deck.
bj_new ==
    /\ bj["t1"] = NoGame
    /\ \E c1 \in ranks, c2 \in ranks, c3 \in ranks, c4 \in ranks :
          bj' = [bj EXCEPT !["t1"] = BlackjackGame("p1", min_bet, c1, c2, c3, c4)]
    /\ call' = [fn |-> "BlackjackGame", arg |-> <<"p1", min_bet>>, ret |-> 0]
    /\ UNCHANGED tableRest

\* game.check_game_over()
call_check_game_over ==
    /\ bj["t1"] # NoGame
    /\ bj' = [bj EXCEPT !["t1"] = check_game_over(bj["t1"])]
    /\ call' = [fn |-> "check_game_over", arg |-> <<>>,
                ret |-> check_game_over(bj["t1"]).game_over]
    /\ UNCHANGED tableRest

\* game.player_hit(): True when a card was drawn.
call_player_hit ==
    /\ bj["t1"] # NoGame
    /\ Len(bj["t1"].player_hand) < MaxHand
    /\ \E c \in Dealable(bj["t1"].player_hand, bj["t1"].dealer_hand) :
          bj' = [bj EXCEPT !["t1"] = player_hit(bj["t1"], c)]
    /\ call' = [fn |-> "player_hit", arg |-> <<>>,
                ret |-> ~(bj["t1"].game_over \/ bj["t1"].player_stood)]
    /\ UNCHANGED tableRest

\* game.player_stand(): True when the player could stand.
call_player_stand ==
    /\ bj["t1"] # NoGame
    /\ \E dh \in DealerPlays(bj["t1"].player_hand, bj["t1"].dealer_hand) :
          bj' = [bj EXCEPT !["t1"] = player_stand(bj["t1"], dh)]
    /\ call' = [fn |-> "player_stand", arg |-> <<>>,
                ret |-> ~(bj["t1"].game_over \/ bj["t1"].player_stood)]
    /\ UNCHANGED tableRest

\* game.calculate_reward()
call_calculate_reward ==
    /\ bj["t1"] # NoGame
    /\ call' = [fn |-> "calculate_reward", arg |-> <<>>, ret |-> calculate_reward(bj["t1"])]
    /\ UNCHANGED <<bj, tableRest>>

\* ============================================================== Tic Tac Toe
\* `!tictactoe` (nobody), `!tictactoe @member`, `!tictactoe @member <bet>`
TttMembers == Players \cup {"nobody"}
TttBets == {-5, 0, 50}

\* TicTacToeGame.__init__
TicTacToeGame(player1, player2, bet) ==
    [player1 |-> player1, player2 |-> player2, bet |-> bet,
     board |-> [i \in 1..9 |-> "None"], current_turn |-> player1,
     winner |-> "None", game_over |-> FALSE, timed_out |-> FALSE]

\* tictactoe.py 54-81: the rows, the columns and the diagonals, in the order
\* check_game_over looks at them (positions 0..8).
WinLines == << <<0, 1, 2>>, <<3, 4, 5>>, <<6, 7, 8>>,
               <<0, 3, 6>>, <<1, 4, 7>>, <<2, 5, 8>>,
               <<0, 4, 8>>, <<2, 4, 6>> >>

LineComplete(board, l) ==
    /\ board[l[1] + 1] # "None"
    /\ board[l[1] + 1] = board[l[2] + 1]
    /\ board[l[2] + 1] = board[l[3] + 1]

check_rows_only(g) ==
    LET done == {k \in 1..3 : LineComplete(g.board, WinLines[k])}
        first == CHOOSE k \in done : \A j \in done : k <= j
        mark == g.board[WinLines[first][1] + 1]
    IN  IF done # {}
        THEN [g EXCEPT !.winner = IF mark = "X" THEN g.player1 ELSE g.player2,
                       !.game_over = TRUE]
        ELSE IF \A i \in 1..9 : g.board[i] # "None"
        THEN [g EXCEPT !.game_over = TRUE]
        ELSE g

\* TicTacToeGame.check_game_over: the game after the call.
ttt_check_game_over(g) ==
    LET done == {k \in DOMAIN WinLines : LineComplete(g.board, WinLines[k])}
        first == CHOOSE k \in done : \A j \in done : k <= j
        mark == g.board[WinLines[first][1] + 1]
    IN  IF done # {}
        THEN [g EXCEPT !.winner = IF mark = "X" THEN g.player1 ELSE g.player2,
                       !.game_over = TRUE]
        ELSE IF \A i \in 1..9 : g.board[i] # "None"
        THEN [g EXCEPT !.game_over = TRUE]
        ELSE g

make_move_ok_after_end(g, position, player) ==
    /\ player = g.current_turn
    /\ position >= 0 /\ position <= 8
    /\ g.board[position + 1] = "None"

\* make_move leaving the turn with the mover.
make_move_same_turn(g, position, player) ==
    IF /\ ~g.game_over
       /\ player = g.current_turn
       /\ position >= 0 /\ position <= 8
       /\ g.board[position + 1] = "None"
    THEN ttt_check_game_over(
             [g EXCEPT !.board[position + 1] = IF player = g.player1 THEN "X" ELSE "O"])
    ELSE g

\* TicTacToeGame.make_move: whether the move is taken, and the game after it.
make_move_ok(g, position, player) ==
    /\ ~g.game_over
    /\ player = g.current_turn
    /\ position >= 0 /\ position <= 8
    /\ g.board[position + 1] = "None"

make_move(g, position, player) ==
    IF make_move_ok(g, position, player)
    THEN ttt_check_game_over(
             [g EXCEPT !.board[position + 1] = IF player = g.player1 THEN "X" ELSE "O",
                       !.current_turn = IF player = g.player1 THEN g.player2 ELSE g.player1])
    ELSE g

\* A TicTacToeGame on its own: it is created, then make_move is called with
\* any position from -1 to 9 by either player, in turn or not.
boardRest == <<file, cache, heap, task, now, ncmd, start_bal, loot, bjVars, cells, ttt_games,
               pending_challenges, memVars, moreVars>>

board_new ==
    /\ ttt["t1"] = NoGame
    /\ ttt' = [ttt EXCEPT !["t1"] = TicTacToeGame("p1", "p2", 0)]
    /\ UNCHANGED <<call, boardRest>>

call_make_move ==
    /\ ttt["t1"] # NoGame
    /\ \E position \in -1..9, player \in Players :
          /\ call' = [fn |-> "make_move", arg |-> <<position, player>>,
                      ret |-> make_move_ok(ttt["t1"], position, player)]
          /\ ttt' = [ttt EXCEPT !["t1"] = make_move(ttt["t1"], position, player)]
    /\ UNCHANGED boardRest

\* What a tictactoe step does to the registries and to its game.
TttEffect(t, reg, pend, g) ==
    /\ ttt_games' = reg
    /\ pending_challenges' = pend
    /\ ttt' = [ttt EXCEPT ![t] = g]
    /\ UNCHANGED <<now, cells, bjVars, memVars, moreVars, call>>

TttSame(t) == TttEffect(t, ttt_games, pending_challenges, ttt[t])

\* tictactoe.py 136-251: the channel, target, bet and pending checks; with
\* a bet, `economy_cog.get_balance` is looked up (208) and class Economy
\* defines no get_balance: AttributeError, nothing sent, nothing stored.
\* Without a bet the challenge is sent.
Challenge(t, bets) ==
    \E u \in Players, member \in TttMembers, bet \in bets :
        LET fr == [Idle EXCEPT !.op = "tictactoe", !.who = u, !.other = member, !.amt = bet]
            refuse(r) == Step([task EXCEPT ![t] = Done(fr, r)], cache, heap, file)
        IN  /\ Free(t)
            /\ ncmd > 0
            /\ ncmd' = ncmd - 1
            /\ TttEffect(t, ttt_games, pending_challenges, NoGame)
            /\ IF ttt_games # "none" THEN refuse("in_progress")
               ELSE IF member = "nobody" THEN refuse("no_target")
               ELSE IF member = u THEN refuse("self")
               ELSE IF bet < 0 THEN refuse("negative_bet")
               ELSE IF pending_challenges[member] # "none" THEN refuse("pending")
               ELSE IF bet > 0 THEN refuse("AttributeError")
               ELSE Step([task EXCEPT ![t] = [fr EXCEPT !.pc = "ttt_challenge"]],
                         cache, heap, file)

tictactoe(t) == Challenge(t, TttBets)

\* A challenge without a bet: no ledger call is made for the whole game.
tictactoe_unwagered(t) == Challenge(t, {0})

\* tictactoe.py 252-267: the challenge is stored and the reply awaited.
ttt_challenge(t) ==
    LET fr == task[t]
    IN  /\ fr.pc = "ttt_challenge"
        /\ Step([task EXCEPT ![t].pc = "ttt_pending"], cache, heap, file)
        /\ TttEffect(t, ttt_games, [pending_challenges EXCEPT ![fr.other] = t], ttt[t])
        /\ UNCHANGED ncmd

\* tictactoe.py 267-301: accepted, declined or no reply within 60 s.
\* `del self.pending_challenges[member.id]` raises KeyError when the entry
\* is gone.
ttt_pending(t) ==
    LET fr == task[t]
        cleared == [pending_challenges EXCEPT ![fr.other] = "none"]
    IN  /\ fr.pc = "ttt_pending"
        /\ \E reply \in {"accept", "decline", "timeout"} :
              IF reply = "timeout"
              THEN /\ Step([task EXCEPT ![t] = Done(fr, "expired")], cache, heap, file)
                   /\ TttEffect(t, ttt_games, cleared, ttt[t])
              ELSE IF pending_challenges[fr.other] = "none"
              THEN /\ Step([task EXCEPT ![t] = Done(fr, "KeyError")], cache, heap, file)
                   /\ TttSame(t)
              ELSE IF reply = "decline"
              THEN /\ Step([task EXCEPT ![t] = Done(fr, "declined")], cache, heap, file)
                   /\ TttEffect(t, ttt_games, cleared, ttt[t])
              ELSE /\ Step([task EXCEPT ![t].pc = "ttt_start"], cache, heap, file)
                   /\ TttEffect(t, ttt_games, cleared, ttt[t])
        /\ UNCHANGED ncmd

\* No other handler is running and no command is left to come: nothing but
\* the game touches the ledger from here on.
Quiet(t) == ncmd = 0 /\ \A t2 \in Tasks \ {t} : Free(t2)

\* TicTacToe.start_game, 306-316: the game is created and registered, then
\* the bets are taken, player1's first.
ttt_start(t) ==
    LET fr == [task[t] EXCEPT !.pre = Balance(task[t].who), !.pre2 = Balance(task[t].other),
                              !.quiet = Quiet(t)]
        tk == [task EXCEPT ![t] = fr]
    IN  /\ task[t].pc = "ttt_start"
        /\ IF fr.amt > 0
           THEN BalanceCall(tk, t, "remove_balance", fr.who, fr.amt, "ttt_debit2")
           ELSE Step([tk EXCEPT ![t].pc = "ttt_wait"], cache, heap, file)
        /\ TttEffect(t, t, pending_challenges, TicTacToeGame(fr.who, fr.other, fr.amt))
        /\ UNCHANGED ncmd

\* TicTacToe.start_game, 317-327: player2's bet, then the board is sent and
\* the game loop waits for a move.  Reached with a bet only, and no challenge
\* with a bet gets past line 208.
ttt_debit2(t) ==
    LET fr == task[t]
    IN  /\ fr.pc = "ttt_debit2"
        /\ BalanceCall(task, t, "remove_balance", fr.other, fr.amt, "ttt_wait")
        /\ TttSame(t)
        /\ UNCHANGED ncmd

\* TicTacToe.game_loop, 423-438, and 476-483: a click of the player to move.
ttt_move(t) ==
    /\ task[t].pc = "ttt_wait"
    /\ \E position \in cells :
          LET g == make_move(ttt[t], position, ttt[t].current_turn)
          IN  /\ Step([task EXCEPT ![t].pc = IF g.game_over THEN "ttt_end" ELSE "ttt_wait"],
                      cache, heap, file)
              /\ TttEffect(t, ttt_games, pending_challenges, g)
    /\ UNCHANGED ncmd

\* TicTacToe.game_loop, 440-450: no move within 120 s; the game is over and
\* the timeout message is sent.
ttt_timeout(t) ==
    LET fr == task[t]
    IN  /\ fr.pc = "ttt_wait"
        /\ Step([task EXCEPT ![t].pc = "ttt_refund1"], cache, heap, file)
        /\ TttEffect(t, ttt_games, pending_challenges,
                     [ttt[t] EXCEPT !.game_over = TRUE, !.timed_out = TRUE])
        /\ UNCHANGED ncmd

\* tictactoe.py 452-456: after the message the bets go back, player1's first.
ttt_refund1(t) ==
    LET fr == task[t]
    IN  /\ fr.pc = "ttt_refund1"
        /\ IF fr.amt > 0
           THEN BalanceCall(task, t, "add_balance", fr.who, fr.amt, "ttt_refund2")
           ELSE Step([task EXCEPT ![t].pc = "ttt_cleanup"], cache, heap, file)
        /\ TttSame(t)
        /\ UNCHANGED ncmd

\* tictactoe.py 457 and 502: player2's bet goes back.  Reached with a bet
\* only.
ttt_refund2(t) ==
    LET fr == task[t]
    IN  /\ fr.pc = "ttt_refund2"
        /\ BalanceCall(task, t, "add_balance", fr.other, fr.amt, "ttt_cleanup")
        /\ TttSame(t)
        /\ UNCHANGED ncmd

\* TicTacToe.end_game, 486-512: the winner is paid twice the bet; after a
\* draw the bets go back.
ttt_end(t) ==
    LET fr == task[t]
        g == ttt[t]
    IN  /\ fr.pc = "ttt_end"
        /\ IF g.bet > 0
           THEN IF g.winner # "None"
                THEN BalanceCall(task, t, "add_balance", g.winner, g.bet * 2, "ttt_cleanup")
                ELSE BalanceCall(task, t, "add_balance", g.player1, g.bet, "ttt_refund2")
           ELSE Step([task EXCEPT ![t].pc = "ttt_cleanup"], cache, heap, file)
        /\ TttSame(t)
        /\ UNCHANGED ncmd

\* How a game ended, for the frame that outlives it.
Outcome(g) ==
    IF g.timed_out THEN "timeout"
    ELSE IF g.winner = "None" THEN "draw"
    ELSE IF g.winner = g.player1 THEN "player1" ELSE "player2"

\* tictactoe.py 466-467 and 520-521: `if ctx.channel.id in self.games: del
\* self.games[ctx.channel.id]`; the handler returns and its game object dies.
ttt_cleanup(t) ==
    /\ task[t].pc = "ttt_cleanup"
    /\ Step([task EXCEPT ![t] = Done([task[t] EXCEPT !.item = Outcome(ttt[t])], "ok")],
            cache, heap, file)
    /\ TttEffect(t, "none", pending_challenges, NoGame)
    /\ UNCHANGED ncmd

\* =================================================================== Memory
\* `!memory <difficulty>`; the model plays the easy grid only.
MemDifficulties == {"easy", "EASY", "bogus"}
lower(difficulty) == IF difficulty = "EASY" THEN "easy" ELSE difficulty
valid_difficulties == {"easy", "normal", "hard", "expert"}

mem_rows == 4
mem_cols == 4
MemCells == 0..(mem_rows * mem_cols - 1)
num_pairs == (mem_rows * mem_cols) \div 2

\* MemoryGame._create_board: two of the shuffles, cell by cell in reading
\* order (emoji k = 0..7).
Layouts == { [i \in 1..16 |-> (i - 1) % 8], [i \in 1..16 |-> (i - 1) \div 2] }

\* Seconds between the first pick and the last one.
MemElapsed == {30, 100, 300}

Cell(row, col) == row * mem_cols + col

\* MemoryGame.__init__ ; first_pick -1 is None, start_time / end_time -1 is None.
MemoryGame(player, difficulty, board) ==
    [player |-> player, difficulty |-> difficulty, board |-> board, revealed |-> {},
     first_pick |-> -1, moves |-> 0, matches |-> 0, start_time |-> -1, end_time |-> -1]

\* MemoryGame.is_valid_pick
is_valid_pick(g, row, col) ==
    /\ ~(row < 0 \/ row >= mem_rows \/ col < 0 \/ col >= mem_cols)
    /\ Cell(row, col) \notin g.revealed

\* MemoryGame.make_pick: the value it returns ...
make_pick_result(g, row, col) ==
    /\ is_valid_pick(g, row, col)
    /\ \/ g.first_pick = -1
       \/ g.board[g.first_pick + 1] = g.board[Cell(row, col) + 1]

\* ... and the game after it; the last match is made `elapsed` seconds after
\* the first pick.
make_pick(g, row, col, elapsed) ==
    LET c == Cell(row, col)
        g1 == [g EXCEPT !.start_time = IF g.moves = 0 THEN 0 ELSE @,
                        !.moves = @ + 1,
                        !.revealed = @ \cup {c}]
    IN  IF ~is_valid_pick(g, row, col) THEN g
        ELSE IF g.first_pick = -1 THEN [g1 EXCEPT !.first_pick = c]
        ELSE IF g.board[g.first_pick + 1] = g.board[c + 1]
        THEN [g1 EXCEPT !.matches = @ + 1, !.first_pick = -1,
                        !.end_time = IF g.matches + 1 = num_pairs THEN elapsed ELSE @]
        ELSE g1

\* MemoryGame.hide_picks
hide_picks(g) ==
    IF g.first_pick # -1
    THEN [g EXCEPT !.revealed = @ \ {g.first_pick}, !.first_pick = -1]
    ELSE g

\* memory.py 402-416: the pick of a column click, with the hiding of a
\* mismatch as game_loop decides it.
column_pick(g, row, col, elapsed) ==
    LET match_result == make_pick_result(g, row, col)
        g1 == make_pick(g, row, col, elapsed)
    IN  IF ~is_valid_pick(g, row, col) THEN g
        ELSE IF ~match_result /\ g1.first_pick = -1 THEN hide_picks(g1)
        ELSE g1

\* MemoryGame.get_score for the easy grid, in whole numbers: the time factor
\* tn/td and the move factor mn/md, each clamped as the code clamps them.
get_score(g) ==
    LET t == Max(1, g.end_time - g.start_time)
        tn == IF 120 >= 2 * t THEN 2 ELSE IF 240 <= t THEN 1 ELSE 120
        td == IF 120 >= 2 * t THEN 1 ELSE IF 240 <= t THEN 2 ELSE t
        en == 2 * num_pairs
        ed == Max(2, g.moves)
        mn == IF 2 * en <= ed THEN 1 ELSE IF 2 * en >= 3 * ed THEN 3 ELSE en
        md == IF 2 * en <= ed THEN 2 ELSE IF 2 * en >= 3 * ed THEN 2 ELSE ed
    IN  IF g.end_time = -1 THEN 0 ELSE (100 * tn * mn) \div (td * md)

\* MemoryGame.get_reward for the easy grid (multiplier 1.0).
get_reward(g) == Min(500, get_score(g) \div 4)

\* The cards the player of the model goes for: the first MaxLook hidden ones
\* in reading order, the hidden partner of the pending first pick, and one
\* card that is already face up.
Clicks(g) ==
    LET hidden == MemCells \ g.revealed
    IN  {c \in hidden : Cardinality({d \in hidden : d < c}) < MaxLook}
        \cup {c \in hidden : g.first_pick # -1 /\ c # g.first_pick
                             /\ g.board[c + 1] = g.board[g.first_pick + 1]}
        \cup {c \in g.revealed : \A d \in g.revealed : c <= d}

\* What a memory step does to the registry and to its game.
MemEffect(t, reg, g) ==
    /\ mem_games' = reg
    /\ mem' = [mem EXCEPT ![t] = g]
    /\ UNCHANGED <<now, bjVars, tttVars, moreVars, call>>

\* memory.py 244-296 and 358-376: the registry and difficulty checks, the
\* new game is registered, the board is sent and the first click awaited.
memory(t) ==
    \E u \in Players, difficulty \in MemDifficulties, board \in Layouts :
        LET fr == [Idle EXCEPT !.op = "memory", !.who = u, !.item = lower(difficulty),
                               !.pre = Balance(u)]
        IN  /\ Free(t)
            /\ ncmd > 0
            /\ ncmd' = ncmd - 1
            /\ IF mem_games[u] # "none"
               THEN /\ Step([task EXCEPT ![t] = Done(fr, "already_active")], cache, heap, file)
                    /\ MemEffect(t, mem_games, NoGame)
               ELSE IF lower(difficulty) \notin valid_difficulties
               THEN /\ Step([task EXCEPT ![t] = Done(fr, "invalid_difficulty")],
                            cache, heap, file)
                    /\ MemEffect(t, mem_games, NoGame)
               ELSE /\ Step([task EXCEPT ![t] = [fr EXCEPT !.pc = "mem_wait", !.sub = "row"]],
                            cache, heap, file)
                    /\ MemEffect(t, [mem_games EXCEPT ![u] = t],
                                 MemoryGame(u, lower(difficulty), board))

\* Memory.game_loop, 358: `while ctx.author.id in self.games and not
\* game.end_time`.
LoopGoesOn(t, g) == mem_games[task[t].who] # "none" /\ g.end_time = -1

\* The frame after a click: back to the wait, or out of the loop.
AfterClick(t, fr, g) == IF LoopGoesOn(t, g) THEN fr ELSE Done(fr, "stopped")

\* Memory.game_loop, 379-395 and 430-439: a row is clicked.
mem_row(t) ==
    LET fr == task[t]
    IN  /\ fr.pc = "mem_wait" /\ fr.sub = "row"
        /\ \E c \in Clicks(mem[t]) :
              Step([task EXCEPT ![t] = AfterClick(t, [fr EXCEPT !.sub = "column",
                                                               !.sub_amt = c \div mem_cols],
                                                  mem[t])],
                   cache, heap, file)
        /\ MemEffect(t, mem_games, mem[t])
        /\ UNCHANGED ncmd

\* Memory.game_loop, 397-436: a column is clicked; the pick is made if the
\* card is face down and the board is updated; after the last pair the
\* loop goes on to end_game.
mem_column(t) ==
    LET fr == task[t]
    IN  /\ fr.pc = "mem_wait" /\ fr.sub = "column"
        /\ \E c \in Clicks(mem[t]), elapsed \in MemElapsed :
              LET g == column_pick(mem[t], fr.sub_amt, c % mem_cols, elapsed)
                  fr2 == [fr EXCEPT !.sub = "row", !.sub_amt = 0]
              IN  /\ c \div mem_cols = fr.sub_amt
                  /\ IF g.end_time # -1
                     THEN Step([task EXCEPT ![t] = [fr2 EXCEPT !.pc = "mem_end"]],
                               cache, heap, file)
                     ELSE Step([task EXCEPT ![t] = AfterClick(t, fr2, g)], cache, heap, file)
                  /\ MemEffect(t, mem_games, g)
        /\ UNCHANGED ncmd

\* Memory.game_loop, 437-439, and Memory.end_game, 464-471: the board has
\* been updated and the reactions reset; the reward is credited.
mem_end(t) ==
    LET fr == task[t]
    IN  /\ fr.pc = "mem_end"
        /\ BalanceCall(task, t, "add_balance", fr.who, get_reward(mem[t]), "mem_cleanup")
        /\ MemEffect(t, mem_games, mem[t])
        /\ UNCHANGED ncmd

\* Memory.game_loop, 441-459: no click within 120 s.
mem_timeout(t) ==
    LET fr == task[t]
    IN  /\ fr.pc = "mem_wait"
        /\ Step([task EXCEPT ![t] = Done([fr EXCEPT !.item = "timeout"], "ok")],
                cache, heap, file)
        /\ MemEffect(t, [mem_games EXCEPT ![fr.who] = "none"], NoGame)
        /\ UNCHANGED ncmd

\* Memory.end_game, 497-509: the result is sent and the game unregistered.
mem_cleanup(t) ==
    LET fr == task[t]
    IN  /\ fr.pc = "mem_cleanup"
        /\ Step([task EXCEPT ![t] = Done([fr EXCEPT !.item = "complete"], "ok")],
                cache, heap, file)
        /\ MemEffect(t, [mem_games EXCEPT ![fr.who] = "none"], NoGame)
        /\ UNCHANGED ncmd

\* ------------------------------------------------------------ number guess
\* A Python float: the bits of its significand, lowest first, and the power
\* of two its lowest bit stands for.  No bits is 0.0.
RECURSIVE Bits(_)
Bits(n) == IF n = 0 THEN <<>> ELSE <<n % 2>> \o Bits(n \div 2)

RECURSIVE BitsValue(_)
BitsValue(bits) == IF bits = <<>> THEN 0 ELSE Head(bits) + 2 * BitsValue(Tail(bits))

\* The literal 0.1 : 0x1999999999999A x 2^-56.
tenth ==
    [m |-> <<0, 1, 0, 1>> \o [i \in 1..48 |-> IF i % 4 \in {1, 0} THEN 1 ELSE 0] \o <<1>>,
     e |-> -56]

\* The bits of bits x n + carry, n a non-negative integer.
RECURSIVE BitsTimes(_, _, _)
BitsTimes(bits, n, carry) ==
    IF bits = <<>> THEN Bits(carry)
    ELSE LET v == Head(bits) * n + carry
         IN  <<v % 2>> \o BitsTimes(Tail(bits), n, v \div 2)

\* bits + 1.
RECURSIVE BitsSucc(_)
BitsSucc(bits) ==
    IF bits = <<>> THEN <<1>>
    ELSE IF Head(bits) = 0 THEN <<1>> \o Tail(bits)
    ELSE <<0>> \o BitsSucc(Tail(bits))

\* A significand of any width rounded to the 53 bits of a float, to the
\* nearest one and to the even one on a tie.
RECURSIVE RoundFloat(_)
RoundFloat(x) ==
    IF Len(x.m) <= 53 THEN x
    ELSE LET k == Len(x.m) - 53
             kept == SubSeq(x.m, k + 1, Len(x.m))
             up == /\ x.m[k] = 1
                   /\ kept[1] = 1 \/ \E i \in 1..(k - 1) : x.m[i] = 1
         IN  RoundFloat([m |-> IF up THEN BitsSucc(kept) ELSE kept, e |-> x.e + k])

\* n * x for a non-negative int n and a float x.
float_times(n, x) ==
    IF n = 0 \/ x.m = <<>> THEN [m |-> <<>>, e |-> 0]
    ELSE RoundFloat([m |-> BitsTimes(x.m, n, 0), e |-> x.e])

\* int(x) for a float x >= 0 : the fraction is cut off.
RECURSIVE int(_)
int(x) ==
    IF x.e >= 0 THEN (IF x.e = 0 THEN BitsValue(x.m) ELSE 2 * int([x EXCEPT !.e = x.e - 1]))
    ELSE IF Len(x.m) <= -x.e THEN 0
    ELSE BitsValue(SubSeq(x.m, 1 - x.e, Len(x.m)))

\* NumberGuess.end_game, 216-218: the coins of a win.
ng_bonus(reward, remaining_attempts) ==
    int(float_times(reward, float_times(remaining_attempts, tenth)))
ng_total_reward(g) == g.reward + ng_bonus(g.reward, g.max_attempts - g.attempts)

\* NumberGuess.numguess, 41-57: range, attempts and reward of a difficulty.
NgLevels ==
    [easy |-> [range |-> <<1, 50>>, max_attempts |-> 6, reward |-> 50],
     normal |-> [range |-> <<1, 100>>, max_attempts |-> 7, reward |-> 100],
     hard |-> [range |-> <<1, 200>>, max_attempts |-> 8, reward |-> 200],
     expert |-> [range |-> <<1, 500>>, max_attempts |-> 9, reward |-> 500]]

\* The difficulties typed, the secrets random.randint gives and the numbers
\* guessed in a run.
NgDifficulties == {"easy", "normal", "hard", "expert", "bogus"}
NgSecrets(range) == {n \in {25} : range[1] <= n /\ n <= range[2]}
NgGuesses == {10, 25, 40}

\* NumberGuess.numguess, 69-81: the game_state of a new game.
NgGameState(difficulty, secret_number) ==
    [secret_number |-> secret_number, range |-> NgLevels[difficulty].range, attempts |-> 0,
     max_attempts |-> NgLevels[difficulty].max_attempts, guesses |-> <<>>,
     status |-> "active", reward |-> NgLevels[difficulty].reward, difficulty |-> difficulty]

guess_status_budget_first(g, guess) ==
    IF g.attempts >= g.max_attempts THEN "lost"
    ELSE IF guess = g.secret_number THEN "won"
    ELSE "active"

\* NumberGuess.process_guess, 131-143: the status after a guess that has
\* been counted in g.attempts.
guess_status(g, guess) ==
    IF guess = g.secret_number THEN "won"
    ELSE IF g.attempts >= g.max_attempts THEN "lost"
    ELSE "active"

\* NumberGuess.process_guess, 122-138: the game_state after a guess.
process_guess(g, guess) ==
    LET counted == [g EXCEPT !.attempts = g.attempts + 1, !.guesses = Append(g.guesses, guess)]
    IN  [counted EXCEPT !.status = guess_status(counted, guess)]

\* What a numguess step does to the registry and to its game_state.
NgEffect(t, reg, g) ==
    /\ ng_games' = reg
    /\ ng' = [ng EXCEPT ![t] = g]
    /\ UNCHANGED <<now, bjVars, tttVars, memVars, snVars, lateVars, call>>

\* NumberGuess.numguess, 30-87: the registry and difficulty checks, the new
\* game is registered and shown, and the first number is awaited.
numguess(t) ==
    \E u \in Players, difficulty \in NgDifficulties :
        LET fr == [Idle EXCEPT !.op = "numguess", !.who = u, !.item = lower(difficulty),
                               !.pre = Balance(u)]
        IN  /\ Free(t)
            /\ ncmd > 0
            /\ ncmd' = ncmd - 1
            /\ IF ng_games[u] # "none"
               THEN /\ Step([task EXCEPT ![t] = Done(fr, "already_active")], cache, heap, file)
                    /\ NgEffect(t, ng_games, NoGame)
               ELSE IF lower(difficulty) \notin DOMAIN NgLevels
               THEN /\ Step([task EXCEPT ![t] = Done(fr, "invalid_difficulty")],
                            cache, heap, file)
                    /\ NgEffect(t, ng_games, NoGame)
               ELSE \E secret_number \in NgSecrets(NgLevels[lower(difficulty)].range) :
                      /\ Step([task EXCEPT ![t] = [fr EXCEPT !.pc = "ng_wait"]],
                              cache, heap, file)
                      /\ NgEffect(t, [ng_games EXCEPT ![u] = t],
                                  NgGameState(lower(difficulty), secret_number))

\* NumberGuess.numguess, 90-110, process_guess and end_game, 202-221: the
\* player types a number.  A win goes on to credit the coins, a loss to
\* the result message, any other guess back to the wait.
ng_guess(t) ==
    LET fr == task[t]
    IN  /\ fr.pc = "ng_wait"
        /\ \E guess \in NgGuesses :
              LET g == process_guess(ng[t], guess)
              IN  /\ IF g.status = "won"
                     THEN BalanceCall([task EXCEPT ![t] = [fr EXCEPT !.amt = ng_total_reward(g)]],
                                      t, "add_balance", fr.who, ng_total_reward(g),
                                      "ng_cleanup")
                     ELSE Step([task EXCEPT ![t] = [fr EXCEPT !.pc = IF g.status = "lost"
                                                                    THEN "ng_cleanup"
                                                                    ELSE "ng_wait"]],
                               cache, heap, file)
                  /\ NgEffect(t, ng_games, g)
        /\ UNCHANGED ncmd

\* NumberGuess.numguess, 112-116: no number within 60 s.
ng_timeout(t) ==
    LET fr == task[t]
    IN  /\ fr.pc = "ng_wait"
        /\ Step([task EXCEPT ![t] = [fr EXCEPT !.pc = "ng_cleanup"]], cache, heap, file)
        /\ NgEffect(t, ng_games, [ng[t] EXCEPT !.status = "timeout"])
        /\ UNCHANGED ncmd

\* NumberGuess.end_game, 259-266: the result is sent and the game
\* unregistered; the handler leaves its loop with the game_state it ended.
ng_cleanup(t) ==
    LET fr == task[t]
    IN  /\ fr.pc = "ng_cleanup"
        /\ Step([task EXCEPT ![t] = Done([fr EXCEPT !.item = ng[t].status], "ok")],
                cache, heap, file)
        /\ NgEffect(t, [ng_games EXCEPT ![fr.who] = "none"], ng[t])
        /\ UNCHANGED ncmd

\* ------------------------------------------------------------------ snake
\* SnakeGame direction constants, as (dx, dy).
UP == <<0, -1>>
DOWN == <<0, 1>>
LEFT == <<-1, 0>>
RIGHT == <<1, 0>>
Directions == {UP, DOWN, LEFT, RIGHT}

\* SnakeGame.set_difficulty_params: the side of the square grid.
SnakeSide == [easy |-> 8, normal |-> 10, hard |-> 12, expert |-> 15]

\* SnakeGame.get_reward: the difficulty multipliers 1.0, 1.5, 2.0, 3.0 as floats.
SnakeMultiplier ==
    [easy |-> [m |-> <<1>>, e |-> 0], normal |-> [m |-> <<1, 1>>, e |-> -1],
     hard |-> [m |-> <<1>>, e |-> 1], expert |-> [m |-> <<1, 1>>, e |-> 0]]

SeqRange(q) == {q[i] : i \in 1..Len(q)}

\* SnakeGame.place_food: the cells not in the snake.
empty_positions(snake, width, height) ==
    {<<x, y>> : x \in 0..(width - 1), y \in 0..(height - 1)} \ SeqRange(snake)

\* The place of a cell in the list place_food builds, row after row.
ScanIndex(c, width) == c[2] * width + c[1]

\* What place_food can leave in self.food when it was None: nothing
\* without an empty cell, else one of the cells random.choice can give;
\* of those the first, the middle one and the last of the list are taken.
place_food(snake, width, height) ==
    LET free == empty_positions(snake, width, height)
        before(c) == Cardinality({d \in free : ScanIndex(d, width) < ScanIndex(c, width)})
    IN  IF free = {} THEN {"None"}
        ELSE {c \in free : before(c) \in {0, Cardinality(free) \div 2, Cardinality(free) - 1}}

\* SnakeGame.__init__ and reset_game: the new game with its first food.
SnakeGame(player, difficulty, food) ==
    [player |-> player, difficulty |-> difficulty,
     width |-> SnakeSide[difficulty], height |-> SnakeSide[difficulty],
     snake |-> << <<SnakeSide[difficulty] \div 2, SnakeSide[difficulty] \div 2>> >>,
     direction |-> RIGHT, next_direction |-> RIGHT, score |-> 0, food |-> food,
     game_over |-> FALSE]

new_head_unwrapped(g) ==
    <<g.snake[1][1] + g.next_direction[1], g.snake[1][2] + g.next_direction[2]>>

\* SnakeGame.move, 95-101: the cell the head moves to.
new_head(g) ==
    <<(g.snake[1][1] + g.next_direction[1]) % g.width,
      (g.snake[1][2] + g.next_direction[2]) % g.height>>

\* SnakeGame.move, 104 and 113.
hits_itself(g) == new_head(g) \in SeqRange(g.snake)
eats(g) == ~g.game_over /\ ~hits_itself(g) /\ new_head(g) = g.food

\* The foods a move can end with.
MoveFoods(g) ==
    IF eats(g) THEN place_food(<<new_head(g)>> \o g.snake, g.width, g.height) ELSE {g.food}

\* SnakeGame.move: the game after the call, food being what place_food
\* chose if the snake ate.
move(g, food) ==
    LET turned == [g EXCEPT !.direction = g.next_direction]
    IN  IF g.game_over THEN g
        ELSE IF hits_itself(g) THEN [turned EXCEPT !.game_over = TRUE]
        ELSE IF new_head(g) = g.food
        THEN [turned EXCEPT !.snake = <<new_head(g)>> \o g.snake, !.score = g.score + 1,
                            !.food = food]
        ELSE [turned EXCEPT !.snake = <<new_head(g)>> \o SubSeq(g.snake, 1, Len(g.snake) - 1)]

\* change_direction refusing the reverse of the direction queued last.
change_direction_against_next(g, new_direction) ==
    IF new_direction[1] = -g.next_direction[1] /\ new_direction[2] = -g.next_direction[2]
    THEN g
    ELSE [g EXCEPT !.next_direction = new_direction]

\* SnakeGame.change_direction.
change_direction(g, new_direction) ==
    IF new_direction[1] = -g.direction[1] /\ new_direction[2] = -g.direction[2]
    THEN g
    ELSE [g EXCEPT !.next_direction = new_direction]

\* handle_movement, 367-373: the queued directions are applied in order.
RECURSIVE drain(_, _)
drain(g, keys) == IF keys = <<>> THEN g ELSE drain(change_direction(g, Head(keys)), Tail(keys))

\* A snake game on its own, steered through a few ticks of handle_movement
\* (365-373): up to SteerKeys directions wait in the queue at every tick.
\* The call record keeps the queue drained last and counts the ticks.
SteerQueues == UNION {[1..n -> Directions] : n \in 0..SteerKeys}

steer_new ==
    /\ sn["t1"] = NoGame
    /\ \E food \in place_food(SnakeGame("p1", "easy", "None").snake, 8, 8) :
          sn' = [sn EXCEPT !["t1"] = SnakeGame("p1", "easy", food)]
    /\ UNCHANGED <<file, cache, heap, task, now, ncmd, start_bal, loot, bjVars, tttVars, memVars,
                   ngVars, sn_games, lateVars, call>>

steer_tick ==
    /\ sn["t1"] # NoGame
    /\ ~sn["t1"].game_over
    /\ call.ret < SteerTicks
    /\ \E keys \in SteerQueues :
          LET g == drain(sn["t1"], keys)
          IN  \E food \in MoveFoods(g) :
                /\ sn' = [sn EXCEPT !["t1"] = move(g, food)]
                /\ call' = [fn |-> "handle_movement", arg |-> keys, ret |-> call.ret + 1]
    /\ UNCHANGED <<file, cache, heap, task, now, ncmd, start_bal, loot, bjVars, tttVars, memVars,
                   ngVars, sn_games, lateVars>>

\* SnakeGame.get_reward.
snake_reward(g) == int(float_times(g.score * 10, SnakeMultiplier[g.difficulty]))

\* The reactions a player queues between two moves: any, for the first
\* MaxMoves moves; after that the player keeps to a course that visits
\* every cell, right along a row and down at the end of it.
Course(g) == IF (g.snake[1][1] + g.snake[1][2]) % g.width = g.width - 1 THEN DOWN ELSE RIGHT
Presses(moved, g) ==
    IF moved < MaxMoves THEN UNION {[1..n -> Directions] : n \in 0..MaxKeys}
    ELSE {<<Course(g)>>}

SnakeDifficulties == {"easy", "EASY", "bogus"}

\* What a snake step does to the registry and to its game.
SnEffect(t, reg, g) ==
    /\ sn_games' = reg
    /\ sn' = [sn EXCEPT ![t] = g]
    /\ UNCHANGED <<now, bjVars, tttVars, memVars, ngVars, lateVars, call>>

\* Snake.snake, 215-263: the registry and difficulty checks; the new game
\* is registered, shown, and its loop started.
SnakeCmd(t, difficulties) ==
    \E u \in Players, difficulty \in difficulties :
        LET fr == [Idle EXCEPT !.op = "snake", !.who = u, !.item = lower(difficulty),
                               !.pre = Balance(u)]
        IN  /\ Free(t)
            /\ ncmd > 0
            /\ ncmd' = ncmd - 1
            /\ IF sn_games[u] # "none"
               THEN /\ Step([task EXCEPT ![t] = Done(fr, "already_active")], cache, heap, file)
                    /\ SnEffect(t, sn_games, NoGame)
               ELSE IF lower(difficulty) \notin valid_difficulties
               THEN /\ Step([task EXCEPT ![t] = Done(fr, "invalid_difficulty")],
                            cache, heap, file)
                    /\ SnEffect(t, sn_games, NoGame)
               ELSE \E food \in place_food(SnakeGame(u, lower(difficulty), "None").snake,
                                           SnakeSide[lower(difficulty)],
                                           SnakeSide[lower(difficulty)]) :
                      /\ Step([task EXCEPT ![t] = [fr EXCEPT !.pc = "sn_play"]],
                              cache, heap, file)
                      /\ SnEffect(t, [sn_games EXCEPT ![u] = t],
                                  SnakeGame(u, lower(difficulty), food))

snake(t) == SnakeCmd(t, SnakeDifficulties)

\* handle_movement, 365-383: the queue is drained and the snake moves.
\* The frame counts the moves made up to MaxMoves.
SnakeMove(t, keys) ==
    LET fr == task[t]
        g == drain(sn[t], keys)
    IN  /\ fr.pc = "sn_play"
        /\ ~sn[t].game_over
        /\ \E food \in MoveFoods(g) :
              /\ Step([task EXCEPT ![t] = [fr EXCEPT !.amt = Min(fr.amt + 1, MaxMoves)]],
                      cache, heap, file)
              /\ SnEffect(t, sn_games, move(g, food))
        /\ UNCHANGED ncmd

snake_move(t) == \E keys \in Presses(task[t].amt, sn[t]) : SnakeMove(t, keys)

\* handle_input, 349-350: the stop reaction.
snake_stop(t) ==
    /\ task[t].pc = "sn_play"
    /\ ~sn[t].game_over
    /\ task[t].amt < MaxMoves
    /\ Step(task, cache, heap, file)
    /\ SnEffect(t, sn_games, [sn[t] EXCEPT !.game_over = TRUE])
    /\ UNCHANGED ncmd

\* game_loop, 385-397, and end_game, 399-406: the loop sees game_over,
\* cancels its two tasks, and a reward above 0 is credited.
snake_over(t) ==
    LET fr == task[t]
    IN  /\ fr.pc = "sn_play"
        /\ sn[t].game_over
        /\ IF snake_reward(sn[t]) > 0
           THEN BalanceCall(task, t, "add_balance", fr.who, snake_reward(sn[t]), "sn_cleanup")
           ELSE Step([task EXCEPT ![t] = [fr EXCEPT !.pc = "sn_cleanup"]], cache, heap, file)
        /\ SnEffect(t, sn_games, sn[t])
        /\ UNCHANGED ncmd

\* end_game, 439-451: the result is sent and the game unregistered.
snake_cleanup(t) ==
    LET fr == task[t]
    IN  /\ fr.pc = "sn_cleanup"
        /\ Step([task EXCEPT ![t] = Done(fr, "ok")], cache, heap, file)
        /\ SnEffect(t, [sn_games EXCEPT ![fr.who] = "none"], sn[t])
        /\ UNCHANGED ncmd

\* ================================================================== Hangman
\* hangman.py 19-30: two of the categories, with words of the lists.
word_categories ==
    [countries |-> {<<"e", "g", "y", "p", "t">>},
     movies |-> {<<"j", "a", "w", "s">>, <<"a", "v", "a", "t", "a", "r">>}]
HmCategories == {"None", "movies", "countries", "bogus"}

\* hangman.py 85-92: game_state; the reward is ten coins a distinct letter.
HangmanState(word) ==
    [word |-> word, guessed_letters |-> {}, incorrect_guesses |-> 0, status |-> "active",
     reward |-> Cardinality(SeqRange(word)) * 10]

HmEffect(t, reg, g) ==
    /\ hm_games' = reg
    /\ hm' = [hm EXCEPT ![t] = g]
    /\ UNCHANGED <<now, bjVars, tttVars, memVars, ngVars, snVars, rpsVars, wsVars, duel, call>>

\* Hangman.hangman, 44-98: the registry check, the category, the word; the
\* game is registered before the first message is sent.
hangman(t) ==
    \E u \in Players, category \in HmCategories :
        LET fr == [Idle EXCEPT !.op = "hangman", !.who = u, !.item = category,
                               !.pre = Balance(u)]
            chosen == IF category = "None" THEN DOMAIN word_categories
                      ELSE {lower(category)} \cap DOMAIN word_categories
        IN  /\ Free(t)
            /\ ncmd > 0
            /\ ncmd' = ncmd - 1
            /\ IF hm_games[u] # "none"
               THEN /\ Step([task EXCEPT ![t] = Done(fr, "already_active")], cache, heap, file)
                    /\ HmEffect(t, hm_games, NoGame)
               ELSE IF chosen = {}
               THEN /\ Step([task EXCEPT ![t] = Done(fr, "invalid_category")],
                            cache, heap, file)
                    /\ HmEffect(t, hm_games, NoGame)
               ELSE \E c \in chosen : \E word \in word_categories[c] :
                      /\ Step([task EXCEPT ![t] = [fr EXCEPT !.pc = "hm_wait"]],
                              cache, heap, file)
                      /\ HmEffect(t, [hm_games EXCEPT ![u] = t], HangmanState(word))

\* hangman.py 33-41: len(self.stages) - 1, the last drawing.
last_stage == 6

\* process_guess letting the count run past the last drawing.
hm_process_guess_unclamped(g, guess) ==
    IF Len(guess) > 1
    THEN IF guess = g.word
         THEN [g EXCEPT !.guessed_letters = @ \cup SeqRange(g.word)]
         ELSE [g EXCEPT !.incorrect_guesses = @ + 2]
    ELSE IF guess[1] \in g.guessed_letters THEN g
         ELSE [g EXCEPT !.guessed_letters = @ \cup {guess[1]},
                        !.incorrect_guesses =
                            IF guess[1] \notin SeqRange(g.word) THEN @ + 1 ELSE @]

\* Hangman.process_guess: game_state after the guess, a sequence of letters.
hm_process_guess(g, guess) ==
    IF Len(guess) > 1
    THEN IF guess = g.word
         THEN [g EXCEPT !.guessed_letters = @ \cup SeqRange(g.word)]
         ELSE [g EXCEPT !.incorrect_guesses =
                            IF @ + 2 >= last_stage THEN last_stage ELSE @ + 2]
    ELSE IF guess[1] \in g.guessed_letters THEN g
         ELSE [g EXCEPT !.guessed_letters = @ \cup {guess[1]},
                        !.incorrect_guesses =
                            IF guess[1] \notin SeqRange(g.word) THEN @ + 1 ELSE @]

\* hangman.py 125-133: the word shown has no blank left, or the last
\* drawing is reached.
hm_status(g) ==
    IF SeqRange(g.word) \subseteq g.guessed_letters THEN [g EXCEPT !.status = "won"]
    ELSE IF g.incorrect_guesses >= last_stage THEN [g EXCEPT !.status = "lost"]
    ELSE g

\* The messages the check of wait_for lets through (103-114): one letter,
\* or anything as long as the word.  Letters of the word and three others;
\* the word, and the word with another first letter.
WrongLetters == {"x", "q", "z"}
HmGuesses(word) ==
    {<<l>> : l \in SeqRange(word) \cup WrongLetters} \cup {word, [word EXCEPT ![1] = "z"]}

\* hangman.py 116-120 and process_guess, 140-177: a guess arrives and
\* process_guess changes the game, then awaits the edit of the message (177;
\* the notice at 165 for a letter guessed before).  The call record keeps
\* the guess.
hm_guess(t) ==
    /\ task[t].pc = "hm_wait"
    /\ \E guess \in HmGuesses(hm[t].word) :
          /\ Step([task EXCEPT ![t].pc = "hm_check"], cache, heap, file)
          /\ hm' = [hm EXCEPT ![t] = hm_process_guess(hm[t], guess)]
          /\ call' = [fn |-> "process_guess", arg |-> guess, ret |-> 0]
    /\ UNCHANGED <<now, ncmd, hm_games, bjVars, tttVars, memVars, ngVars, snVars, rpsVars,
                   wsVars, duel>>

\* hangman.py 122-133: process_guess has returned; the end of the game is
\* tested and the status set.
hm_check(t) ==
    LET g == hm_status(hm[t])
    IN  /\ task[t].pc = "hm_check"
        /\ Step([task EXCEPT ![t].pc = IF g.status = "active" THEN "hm_wait" ELSE "hm_end"],
                cache, heap, file)
        /\ HmEffect(t, hm_games, g)
        /\ UNCHANGED ncmd

\* hangman.py 120 and 134-137: no guess within 60 s.
hm_timeout(t) ==
    /\ task[t].pc = "hm_wait"
    /\ Step([task EXCEPT ![t].pc = "hm_end"], cache, heap, file)
    /\ HmEffect(t, hm_games, [hm[t] EXCEPT !.status = "timeout"])
    /\ UNCHANGED ncmd

\* end_game paying every game that was played to its end.
hm_end_pays_lost(t) ==
    LET fr == task[t]
    IN  /\ fr.pc = "hm_end"
        /\ IF hm[t].status \in {"won", "lost"}
           THEN BalanceCall(task, t, "add_balance", fr.who, hm[t].reward, "hm_cleanup")
           ELSE Step([task EXCEPT ![t].pc = "hm_cleanup"], cache, heap, file)
        /\ HmEffect(t, hm_games, hm[t])
        /\ UNCHANGED ncmd

\* Hangman.end_game, 239-289: a won game is paid; the result is sent.
hm_end(t) ==
    LET fr == task[t]
    IN  /\ fr.pc = "hm_end"
        /\ IF hm[t].status = "won"
           THEN BalanceCall(task, t, "add_balance", fr.who, hm[t].reward, "hm_cleanup")
           ELSE Step([task EXCEPT ![t].pc = "hm_cleanup"], cache, heap, file)
        /\ HmEffect(t, hm_games, hm[t])
        /\ UNCHANGED ncmd

\* Hangman.end_game, 291-292: `del self.games[ctx.author.id]`; the handler
\* leaves its loop with the game_state it ended.
hm_cleanup(t) ==
    LET fr == task[t]
    IN  /\ fr.pc = "hm_cleanup"
        /\ Step([task EXCEPT ![t] = Done([fr EXCEPT !.item = hm[t].status], "ok")],
                cache, heap, file)
        /\ HmEffect(t, [hm_games EXCEPT ![fr.who] = "none"], hm[t])
        /\ UNCHANGED ncmd

\* ====================================================== Rock Paper Scissors
\* rps.py 562-566: the entry update_stats creates for a player without one.
NoStats == [wins |-> 0, losses |-> 0, ties |-> 0]

RpsEffect(reg) ==
    /\ rps_games' = reg
    /\ UNCHANGED <<rps_stats, now, bjVars, tttVars, memVars, ngVars, snVars, hmVars, wsVars, duel, call>>

\* RockPaperScissors.rps, 30-86, with the first statements of
\* play_against_bot (185) and play_multiplayer (251-253): the checks, then
\* the player, and the opponent of a challenge, are marked as in a game.
rps(t) ==
    \E u \in Players, member \in TttMembers :
        LET fr == [Idle EXCEPT !.op = "rps", !.who = u, !.other = member]
            refuse(r) == /\ Step([task EXCEPT ![t] = Done(fr, r)], cache, heap, file)
                         /\ RpsEffect(rps_games)
        IN  /\ Free(t)
            /\ ncmd > 0
            /\ ncmd' = ncmd - 1
            /\ IF rps_games[u] # "none" THEN refuse("already_active")
               ELSE IF member = "nobody"
               THEN /\ Step([task EXCEPT ![t] = [fr EXCEPT !.pc = "rps_wait"]],
                            cache, heap, file)
                    /\ RpsEffect([rps_games EXCEPT ![u] = t])
               ELSE IF member = u THEN refuse("self")
               ELSE IF rps_games[member] # "none" THEN refuse("opponent_busy")
               ELSE /\ Step([task EXCEPT ![t] = [fr EXCEPT !.pc = "rps_wait"]],
                            cache, heap, file)
                    /\ RpsEffect([rps_games EXCEPT ![u] = t, ![member] = t])

\* rps.py 235-241 and 343-348: no reaction within 30 s; the message is edited.
rps_timeout(t) ==
    /\ task[t].pc = "rps_wait"
    /\ Step([task EXCEPT ![t].pc = "rps_cleanup", ![t].item = "timeout"], cache, heap, file)
    /\ RpsEffect(rps_games)
    /\ UNCHANGED ncmd

\* rps.py 14-18: the keys of self.choices; "None" for a player who lets the
\* 30 s of get_player_choice pass.
RpsChoices == {"rock", "paper", "scissors"}

\* determine_winner naming the second player's win a win.
determine_winner_first_only(choice1, choice2) ==
    IF choice1 = choice2 THEN "tie" ELSE "win"

\* RockPaperScissors.determine_winner
determine_winner(choice1, choice2) ==
    IF choice1 = choice2 THEN "tie"
    ELSE IF \/ choice1 = "rock" /\ choice2 = "scissors"
            \/ choice1 = "paper" /\ choice2 = "rock"
            \/ choice1 = "scissors" /\ choice2 = "paper"
    THEN "win"
    ELSE "loss"

\* update_stats, 569: the key f"{result}s" of the player's entry.
StatKey(result) ==
    CASE result = "win" -> "wins"
      [] result = "tie" -> "ties"
      [] result = "loss" -> "losss"

\* RockPaperScissors.update_stats: the leaderboard after the call.  A key
\* the entry does not have raises KeyError, which update_stats catches
\* and prints (574-575) before anything is saved.
update_stats(stats, user_id, result) ==
    IF StatKey(result) \in DOMAIN stats[user_id]
    THEN [stats EXCEPT ![user_id][StatKey(result)] = @ + 1]
    ELSE stats

\* The result as the second player has it.
Mirror(result) == CASE result = "win" -> "loss" [] result = "loss" -> "win" [] OTHER -> "tie"

\* show_bot_game_result, 456 and 477: the coins for beating and for tying
\* the bot.
rps_win_coins == 20
rps_tie_coins == 5
multiplayer_win_coins == 30
multiplayer_tie_coins == 10

\* play_against_bot, 214-227, and show_bot_game_result, 432-479: the player
\* reacts within the 30 s, the bot draws its move, determine_winner is
\* called and a win or a tie is paid; the call record keeps the call.
rps_bot(t) ==
    LET fr == task[t]
    IN  /\ fr.pc = "rps_wait"
        /\ fr.other \notin Players
        /\ \E user_choice \in RpsChoices, bot_choice \in RpsChoices :
              LET result == determine_winner(user_choice, bot_choice)
                  tk == [task EXCEPT ![t].item = result]
              IN  /\ IF result = "win"
                     THEN BalanceCall(tk, t, "add_balance", fr.who, rps_win_coins, "rps_stats")
                     ELSE IF result = "tie"
                     THEN BalanceCall(tk, t, "add_balance", fr.who, rps_tie_coins, "rps_stats")
                     ELSE Step([tk EXCEPT ![t].pc = "rps_stats"], cache, heap, file)
                  /\ call' = [fn |-> "determine_winner",
                              arg |-> <<user_choice, bot_choice>>, ret |-> result]
        /\ UNCHANGED <<ncmd, now, rpsVars, bjVars, tttVars, memVars, ngVars, snVars, hmVars,
                       wsVars, duel>>

\* play_multiplayer, 280-293 and 300-305: the challenged player accepts or
\* declines within the 30 s, and the message is edited.
rps_reply(t) ==
    LET fr == task[t]
    IN  /\ fr.pc = "rps_wait"
        /\ fr.other \in Players
        /\ \E reply \in {"accept", "decline"} :
              IF reply = "accept"
              THEN Step([task EXCEPT ![t].pc = "rps_choose"], cache, heap, file)
              ELSE Step([task EXCEPT ![t].pc = "rps_declined", ![t].item = "declined"],
                        cache, heap, file)
        /\ RpsEffect(rps_games)
        /\ UNCHANGED ncmd

\* play_multiplayer, 295-298: after the edit of a declined challenge
\* `del self.games[ctx.author.id]` and `del self.games[opponent.id]`; an
\* entry that is gone raises KeyError.  With or without it the finally
\* block is entered and suspends at clear_reactions (350-352).
rps_decline_del(t) ==
    LET fr == task[t]
        raised == [task EXCEPT ![t].pc = "rps_cleanup", ![t].res = "KeyError"]
    IN  /\ fr.pc = "rps_declined"
        /\ IF rps_games[fr.who] = "none"
           THEN /\ Step(raised, cache, heap, file)
                /\ RpsEffect(rps_games)
           ELSE IF rps_games[fr.other] = "none"
           THEN /\ Step(raised, cache, heap, file)
                /\ RpsEffect([rps_games EXCEPT ![fr.who] = "none"])
           ELSE /\ Step([task EXCEPT ![t].pc = "rps_cleanup"], cache, heap, file)
                /\ RpsEffect([rps_games EXCEPT ![fr.who] = "none", ![fr.other] = "none"])
        /\ UNCHANGED ncmd

\* A round that goes on to the result whoever let the time pass.
rps_choose_plays_on(t) ==
    LET fr == task[t]
    IN  /\ fr.pc = "rps_choose"
        /\ \E player1_choice \in RpsChoices \cup {"None"},
              player2_choice \in RpsChoices \cup {"None"} :
              LET result == determine_winner(player1_choice, player2_choice)
              IN  /\ Step([task EXCEPT ![t].pc = "rps_stats", ![t].item = result],
                          cache, heap, file)
                  /\ call' = [fn |-> "determine_winner",
                              arg |-> <<player1_choice, player2_choice>>, ret |-> result]
        /\ UNCHANGED <<ncmd, now, rpsVars, bjVars, tttVars, memVars, ngVars, snVars, hmVars,
                       wsVars, duel>>

\* play_multiplayer, 303-330: asyncio.gather returns the two choices in the
\* order of its arguments; without two choices the round is cancelled,
\* else determine_winner is called and show_multiplayer_result (485-531)
\* pays the winner, or both players after a tie.  The call record
\* keeps the last call made: the two of get_player_choice with what they
\* returned, or determine_winner.
rps_choose(t) ==
    LET fr == task[t]
    IN  /\ fr.pc = "rps_choose"
        /\ \E player1_choice \in RpsChoices \cup {"None"},
              player2_choice \in RpsChoices \cup {"None"} :
              IF player1_choice = "None" \/ player2_choice = "None"
              THEN /\ Step([task EXCEPT ![t].pc = "rps_cleanup", ![t].item = "cancelled"],
                           cache, heap, file)
                   /\ call' = [fn |-> "get_player_choice", arg |-> <<>>,
                               ret |-> <<player1_choice, player2_choice>>]
              ELSE LET result == determine_winner(player1_choice, player2_choice)
                       tk == [task EXCEPT ![t].item = result]
                   IN  /\ IF result = "win"
                          THEN BalanceCall(tk, t, "add_balance", fr.who, multiplayer_win_coins,
                                           "rps_stats")
                          ELSE IF result = "loss"
                          THEN BalanceCall(tk, t, "add_balance", fr.other, multiplayer_win_coins,
                                           "rps_stats")
                          ELSE BalanceCall(tk, t, "add_balance", fr.who, multiplayer_tie_coins,
                                           "rps_tie2")
                       /\ call' = [fn |-> "determine_winner",
                                   arg |-> <<player1_choice, player2_choice>>,
                                   ret |-> result]
        /\ UNCHANGED <<ncmd, now, rpsVars, bjVars, tttVars, memVars, ngVars, snVars, hmVars,
                       wsVars, duel>>

\* show_multiplayer_result, 529-531: after a tie the second player is paid too.
rps_tie2(t) ==
    LET fr == task[t]
    IN  /\ fr.pc = "rps_tie2"
        /\ BalanceCall(task, t, "add_balance", fr.other, multiplayer_tie_coins, "rps_stats")
        /\ UNCHANGED <<ncmd, now, rpsVars, bjVars, tttVars, memVars, ngVars, snVars, hmVars,
                       wsVars, duel, call>>

\* play_multiplayer, 331-340: update_stats for the challenger, then for the
\* challenged player; play_against_bot, 229-230: for the player.
rps_record(t) ==
    LET fr == task[t]
        first == update_stats(rps_stats, fr.who, fr.item)
    IN  /\ fr.pc = "rps_stats"
        /\ Step([task EXCEPT ![t].pc = "rps_cleanup"], cache, heap, file)
        /\ rps_stats' = IF fr.other \in Players
                        THEN update_stats(first, fr.other, Mirror(fr.item))
                        ELSE first
        /\ UNCHANGED <<ncmd, now, rps_games, bjVars, tttVars, memVars, ngVars, snVars, hmVars,
                       wsVars, duel, call>>

\* rps.py 243-246 and 350-356: the finally blocks, after clear_reactions
\* in play_multiplayer: the entries of the player and of the opponent are
\* deleted if there are any, whichever game put them there; a KeyError
\* raised before goes on from here.
rps_cleanup(t) ==
    LET fr == task[t]
        gone == {fr.who, fr.other} \cap Players
    IN  /\ fr.pc = "rps_cleanup"
        /\ Step([task EXCEPT ![t] = Done(fr, IF fr.res = "KeyError" THEN "KeyError" ELSE "ok")],
                cache, heap, file)
        /\ RpsEffect([p \in Players |-> IF p \in gone THEN "none" ELSE rps_games[p]])
        /\ UNCHANGED ncmd

\* ================================================================= RPS duel
\* fun.py 399: the three reactions, by the names the result shows for them.
DuelChoices == {"Rock", "Paper", "Scissors"}
DuelBets == {-5, 0, 20, 60}

DuelEffect(t, d) ==
    /\ duel' = [duel EXCEPT ![t] = d]
    /\ UNCHANGED <<now, bjVars, tttVars, memVars, ngVars, snVars, hmVars, rpsVars, wsVars,
                   call>>

\* fun.py 501-514: who wins with player1_choice and player2_choice.
duel_winner(player1_choice, player2_choice) ==
    IF player1_choice = player2_choice THEN "None"
    ELSE IF <<player1_choice, player2_choice>>
               \in {<<"Rock", "Scissors">>, <<"Paper", "Rock">>, <<"Scissors", "Paper">>}
    THEN "player1" ELSE "player2"

\* Fun.rps_duel, 263-354: the target and the bet are validated; with a bet
\* `economy_cog.get_balance` is looked up (314) and class Economy defines no
\* get_balance: AttributeError, no challenge is sent.
rps_duel(t) ==
    \E u \in Players, member \in Players, bet \in DuelBets :
        LET fr == [Idle EXCEPT !.op = "rps_duel", !.who = u, !.other = member, !.amt = bet,
                               !.pre = Balance(u), !.pre2 = Balance(member)]
            refuse(r) == Step([task EXCEPT ![t] = Done(fr, r)], cache, heap, file)
        IN  /\ Free(t)
            /\ ncmd > 0
            /\ ncmd' = ncmd - 1
            /\ DuelEffect(t, NoGame)
            /\ IF member = u THEN refuse("self")
               ELSE IF bet < 0 THEN refuse("negative_bet")
               ELSE IF bet > 0 THEN refuse("AttributeError")
               ELSE Step([task EXCEPT ![t] = [fr EXCEPT !.pc = "duel_wait"]],
                         cache, heap, file)

\* fun.py 366-397: accepted, declined or no reply within 60 s.
duel_reply(t) ==
    LET fr == task[t]
    IN  /\ fr.pc = "duel_wait"
        /\ \E reply \in {"accept", "decline", "timeout"} :
              IF reply = "accept"
              THEN Step([task EXCEPT ![t].pc = "duel_choose"], cache, heap, file)
              ELSE Step([task EXCEPT ![t] = Done(fr, IF reply = "decline" THEN "declined"
                                                                          ELSE "expired")],
                        cache, heap, file)
        /\ DuelEffect(t, duel[t])
        /\ UNCHANGED ncmd

\* Fun.play_rps_duel, 476-514 and 542-546: two tasks collect the choices.
\* chosen1 and chosen2 are what the players reacted with, "None" for a
\* player who lets the minute pass.  asyncio.wait(timeout=65.0) returns the
\* tasks that have finished by then as the set `done`: a task whose
\* confirmation edit, "Time's Up" notice or wait is still going at 65 s is
\* pending and gets cancelled.  Only `if len(done) == 2` (490) are the
\* results read, by `results = [task.result() for task in done]` in the
\* order of that set, which is either one; else both choices stay None.
\* Without two choices the game is cancelled; else the winner is determined.
duel_choose(t) ==
    LET fr == task[t]
    IN  /\ fr.pc = "duel_choose"
        /\ \E c1 \in DuelChoices \cup {"None"}, c2 \in DuelChoices \cup {"None"} :
           \E done \in SUBSET {1, 2} :
           \E results \in IF Cardinality(done) = 2 THEN {<<c1, c2>>, <<c2, c1>>}
                          ELSE {<<"None", "None">>} :
              LET d == [player1 |-> fr.who, player2 |-> fr.other, chosen1 |-> c1,
                        chosen2 |-> c2, done |-> done, player1_choice |-> results[1],
                        player2_choice |-> results[2],
                        winner |-> IF "None" \in {results[1], results[2]} THEN "None"
                                   ELSE duel_winner(results[1], results[2])]
              IN  /\ DuelEffect(t, d)
                  /\ IF "None" \in {results[1], results[2]}
                     THEN Step([task EXCEPT ![t] = Done(fr, "cancelled")], cache, heap, file)
                     ELSE IF fr.amt > 0 /\ d.winner # "None"
                     THEN BalanceCall(task, t, "remove_balance", fr.who, fr.amt, "duel_debit2")
                     ELSE Step([task EXCEPT ![t].pc = "duel_show"], cache, heap, file)
        /\ UNCHANGED ncmd

\* fun.py 546-547: player1's bet has been removed, player2's is.  Reached
\* with a bet only, and no duel with a bet gets past line 314.
duel_debit2(t) ==
    LET fr == task[t]
    IN  /\ fr.pc = "duel_debit2"
        /\ BalanceCall(task, t, "remove_balance", fr.other, fr.amt, "duel_credit")
        /\ DuelEffect(t, duel[t])
        /\ UNCHANGED ncmd

\* fun.py 549-550: the winner gets twice the bet.
duel_credit(t) ==
    LET fr == task[t]
        winner == IF duel[t].winner = "player1" THEN fr.who ELSE fr.other
    IN  /\ fr.pc = "duel_credit"
        /\ BalanceCall(task, t, "add_balance", winner, fr.amt * 2, "duel_show")
        /\ DuelEffect(t, duel[t])
        /\ UNCHANGED ncmd

\* fun.py 565: the result is shown.
duel_show(t) ==
    LET fr == task[t]
    IN  /\ fr.pc = "duel_show"
        /\ Step([task EXCEPT ![t] = Done(fr, "ok")], cache, heap, file)
        /\ DuelEffect(t, duel[t])
        /\ UNCHANGED ncmd

\* ============================================================ Word Scramble
\* wordscramble.py 18-46 and 81-86: a word of each list; the rewards.
word_lists ==
    [easy |-> {"cat"}, medium |-> {"music"}, hard |-> {"puzzle"}, expert |-> {"algorithm"}]
base_rewards == [easy |-> 30, medium |-> 60, hard |-> 100, expert |-> 200]
WsDifficulties == {"easy", "EASY", "medium", "hard", "expert", "bogus"}
EasyDifficulties == {"easy", "EASY", "bogus"}

\* wordscramble.py 98-109: game_data, and where its game_timeout task is.
WordGame(word, difficulty) ==
    [word |-> word, difficulty |-> difficulty, base_reward |-> base_rewards[difficulty],
     time_bonus |-> base_rewards[difficulty], solved |-> FALSE, solver |-> "none",
     timer |-> "None", hinted |-> "none"]

WsEffect(reg, games) ==
    /\ ws_games' = reg
    /\ ws' = games
    /\ UNCHANGED <<now, bjVars, tttVars, memVars, ngVars, snVars, hmVars, rpsVars, duel, call>>

\* Where the game_timeout task created by coroutine t is.
TimerAt(t) == IF ws[t] = NoGame THEN "done" ELSE ws[t].timer

\* The channel has a game and nobody has solved it.
WsActive == ws_games # "none" /\ ~ws[ws_games].solved

\* The games after coroutine t has made a new game_data dict: a task that
\* took the dict of t's last game at its first hint (hinted = t) and has
\* not ended keeps that dict, which is no game of the model any more
\* ("over").
Registered(t, game) ==
    [t2 \in Tasks |->
        IF t2 = t THEN game
        ELSE IF ws[t2] # NoGame /\ ws[t2].timer # "done" /\ ws[t2].hinted = t
        THEN [ws[t2] EXCEPT !.hinted = "over"]
        ELSE ws[t2]]

\* WordScramble.wordscramble, 48-116: the registry check, the difficulty,
\* the word; the game is registered and the command sends its embed.
\* A coroutine is not started again before its timeout task has ended.
WordScrambleCmd(t, difficulties) ==
    \E u \in Players, difficulty \in difficulties :
        LET fr == [Idle EXCEPT !.op = "wordscramble", !.who = u, !.item = lower(difficulty)]
        IN  /\ Free(t)
            /\ TimerAt(t) = "done"
            /\ ncmd > 0
            /\ ncmd' = ncmd - 1
            /\ IF ws_games # "none"
               THEN /\ Step([task EXCEPT ![t] = Done(fr, "already_active")], cache, heap, file)
                    /\ WsEffect(ws_games, ws)
               ELSE IF lower(difficulty) \notin DOMAIN word_lists
               THEN /\ Step([task EXCEPT ![t] = Done(fr, "invalid_difficulty")],
                            cache, heap, file)
                    /\ WsEffect(ws_games, ws)
               ELSE \E word \in word_lists[lower(difficulty)] :
                      /\ Step([task EXCEPT ![t] = [fr EXCEPT !.pc = "ws_show"]],
                              cache, heap, file)
                      /\ WsEffect(t, Registered(t, WordGame(word, lower(difficulty))))

wordscramble(t) == WordScrambleCmd(t, WsDifficulties)

\* The command where the reward plays no part: easy games only.
wordscramble_easy(t) == WordScrambleCmd(t, EasyDifficulties)

\* wordscramble.py 116-132: the embed is sent; the timeout task is created
\* and kept in game_data, and the command waits for the right answer.
ws_start(t) ==
    /\ task[t].pc = "ws_show"
    /\ Step([task EXCEPT ![t].pc = "ws_wait"], cache, heap, file)
    /\ WsEffect(ws_games, [ws EXCEPT ![t].timer = "sleep1"])
    /\ UNCHANGED ncmd

\* game_timeout, 218-260: after 30 s the game of the channel, if unsolved,
\* gets its first hint and half its time bonus.
ws_hint1(t) ==
    /\ TimerAt(t) = "sleep1"
    /\ LoopFree
    /\ IF WsActive
       THEN WsEffect(ws_games, [[ws EXCEPT ![ws_games].time_bonus = @ \div 2]
                                    EXCEPT ![t].timer = "sleep2", ![t].hinted = ws_games])
       ELSE WsEffect(ws_games, [ws EXCEPT ![t].timer = "done"])
    /\ UNCHANGED <<file, cache, heap, task, ncmd, start_bal, loot>>

\* game_timeout, 263-300: after 30 s more, if the channel has an unsolved
\* game, the dict taken at the first hint (game_data, 221) loses its time
\* bonus (287): the game hinted then, or a dict that is no game any more.
ws_hint2(t) ==
    /\ TimerAt(t) = "sleep2"
    /\ LoopFree
    /\ IF WsActive
       THEN IF ws[t].hinted \in Tasks
            THEN WsEffect(ws_games, [[ws EXCEPT ![ws[t].hinted].time_bonus = 0]
                                         EXCEPT ![t].timer = "sleep3"])
            ELSE WsEffect(ws_games, [ws EXCEPT ![t].timer = "sleep3"])
       ELSE WsEffect(ws_games, [ws EXCEPT ![t].timer = "done"])
    /\ UNCHANGED <<file, cache, heap, task, ncmd, start_bal, loot>>

\* game_timeout, 303-307: after 60 s more end_game is called for the channel
\* if it has an unsolved game; end_game (315-402) sends the result.  The
\* task starts to sleep after the command that created it has started its
\* wait of 120 s (119-132), and sleeps 30 + 30 + 60 s with two edits in
\* between: when it wakes up the wait of the command is over.
ws_timer_end(t) ==
    /\ TimerAt(t) = "sleep3"
    /\ LoopFree
    /\ task[t].pc # "ws_wait"
    /\ WsEffect(ws_games, [ws EXCEPT ![t].timer = IF WsActive THEN "send" ELSE "done"])
    /\ UNCHANGED <<file, cache, heap, task, ncmd, start_bal, loot>>

\* end_game, 404-405, called by game_timeout: `del self.active_games[channel_id]`;
\* its KeyError is caught at 312-313.
ws_timer_del(t) ==
    /\ TimerAt(t) = "send"
    /\ LoopFree
    /\ WsEffect("none", [ws EXCEPT ![t].timer = "done"])
    /\ UNCHANGED <<file, cache, heap, task, ncmd, start_bal, loot>>

\* wordscramble.py 105: max_time, the 60 s of the time bonus, in tenths of
\* a second, the unit of the elapsed times below.
max_time == 600

\* The elapsed times, in tenths of a second, at which the exact product
\* base_reward * (1 - elapsed_time / 60) is a whole number and the product
\* of the doubles of end_game is just below it, for the four rewards of
\* base_rewards.
FloatShort(base_reward) ==
    CASE base_reward = 30 -> {460, 480, 500, 520, 540, 560, 580}
      [] base_reward = 60 -> {250, 290, 310, 330, 350, 460, 480, 500, 520, 540, 560, 580}
      [] base_reward = 100 ->
           {216, 330, 336, 342, 402, 426, 432, 480, 486, 492, 534, 540, 546, 552, 576, 582}
      [] base_reward = 200 ->
           {216, 255, 261, 267, 273, 291, 327, 330, 336, 342, 351, 357, 402, 405, 411, 417,
            426, 432, 465, 471, 477, 480, 486, 492, 501, 507, 534, 537, 540, 546, 552, 555,
            561, 567, 576, 582}
      [] OTHER -> {}

\* end_game, 335-346: int(base_reward * (1.0 - elapsed_time / max_time)) for
\* an answer within max_time, else 0.  The code multiplies doubles: int()
\* cuts the product, which at the times of FloatShort is one less than the
\* whole number of the exact product (4 for 5 at 50.0 s of an easy game).
solved_time_bonus(base_reward, elapsed_time) ==
    IF elapsed_time < max_time
    THEN (base_reward * (max_time - elapsed_time)) \div max_time
           - (IF elapsed_time \in FloatShort(base_reward) THEN 1 ELSE 0)
    ELSE 0

\* end_game, 336: time.time() - start_time when the answer is taken, by
\* where the timeout task of the game is: asleep before the first hint
\* (0.1 s, 10 s), before the second (30.1 s, 50.0 s), after it (60.1 s);
\* any of these for the game of another coroutine.
ElapsedTimes(stage) ==
    CASE stage = "sleep1" -> {1, 100}
      [] stage = "sleep2" -> {301, 500}
      [] stage = "sleep3" -> {601}
      [] OTHER -> {1, 100, 301, 500, 601}

\* The right answer taken without a word to the timeout task.
ws_answer_no_cancel(t) ==
    LET fr == task[t]
    IN  /\ fr.pc = "ws_wait"
        /\ \E u \in Players :
              LET answered == [ws EXCEPT ![t].solved = TRUE, ![t].solver = u,
                                        ![t].timer = @]
                  stage == IF ws_games = t THEN TimerAt(t) ELSE "any"
              IN  IF ws_games = "none"
                  THEN /\ Step([task EXCEPT ![t] = Done([fr EXCEPT !.item = "solved"],
                                                        "no_game")], cache, heap, file)
                       /\ WsEffect(ws_games, answered)
                  ELSE \E elapsed_time \in ElapsedTimes(stage) :
                         LET solver == answered[ws_games].solver
                             time_bonus == solved_time_bonus(answered[ws_games].base_reward,
                                                             elapsed_time)
                             total_reward == answered[ws_games].base_reward + time_bonus
                             asked == [task EXCEPT ![t] = [fr EXCEPT !.item = "solved",
                                                                    !.pre = Balance(solver)]]
                         IN  /\ IF solver = "none"
                                THEN Step([task EXCEPT ![t] =
                                               Done([fr EXCEPT !.item = "solved"],
                                                    "AttributeError")], cache, heap, file)
                                ELSE BalanceCall(asked, t, "add_balance", solver,
                                                 total_reward, "ws_send")
                             /\ WsEffect(ws_games,
                                         [answered EXCEPT ![ws_games].time_bonus = time_bonus])
        /\ UNCHANGED <<now, ncmd>>

\* wordscramble.py 132-143 and end_game, 315-379: a right answer arrives;
\* the game is marked, its timeout task cancelled, and end_game stores the
\* time bonus of the channel's game and pays its solver; the game of
\* another coroutine that nobody has solved has no solver to mention (354).
ws_answer(t) ==
    LET fr == task[t]
    IN  /\ fr.pc = "ws_wait"
        /\ \E u \in Players :
              LET answered == [ws EXCEPT ![t].solved = TRUE, ![t].solver = u,
                                        ![t].timer = "done"]
                  stage == IF ws_games = t THEN TimerAt(t) ELSE "any"
              IN  IF ws_games = "none"
                  THEN /\ Step([task EXCEPT ![t] = Done([fr EXCEPT !.item = "solved"],
                                                        "no_game")], cache, heap, file)
                       /\ WsEffect(ws_games, answered)
                  ELSE \E elapsed_time \in ElapsedTimes(stage) :
                         LET solver == answered[ws_games].solver
                             time_bonus == solved_time_bonus(answered[ws_games].base_reward,
                                                             elapsed_time)
                             total_reward == answered[ws_games].base_reward + time_bonus
                             asked == [task EXCEPT ![t] = [fr EXCEPT !.item = "solved",
                                                                    !.pre = Balance(solver)]]
                         IN  /\ IF solver = "none"
                                THEN Step([task EXCEPT ![t] =
                                               Done([fr EXCEPT !.item = "solved"],
                                                    "AttributeError")], cache, heap, file)
                                ELSE BalanceCall(asked, t, "add_balance", solver,
                                                 total_reward, "ws_send")
                             /\ WsEffect(ws_games,
                                         [answered EXCEPT ![ws_games].time_bonus = time_bonus])
        /\ UNCHANGED <<now, ncmd>>

\* wordscramble.py 145-148: no right answer within 120 s; end_game is called
\* if the channel has a game.
ws_timeout(t) ==
    LET fr == task[t]
    IN  /\ fr.pc = "ws_wait"
        /\ IF ws_games # "none"
           THEN Step([task EXCEPT ![t].pc = "ws_send", ![t].item = "timeout"],
                     cache, heap, file)
           ELSE Step([task EXCEPT ![t] = Done([fr EXCEPT !.item = "timeout"], "ok")],
                     cache, heap, file)
        /\ WsEffect(ws_games, ws)
        /\ UNCHANGED ncmd

\* end_game, 404-405, called by the command: the KeyError of the del ends
\* the command.
ws_cleanup(t) ==
    LET fr == task[t]
    IN  /\ fr.pc = "ws_send"
        /\ Step([task EXCEPT ![t] = Done(fr, IF ws_games = "none" THEN "KeyError" ELSE "ok")],
                cache, heap, file)
        /\ WsEffect("none", ws)
        /\ UNCHANGED ncmd

\* ------------------------------------------------- methods called on their own
\* A run makes one call.  What the call leaves alone:
restVars ==
    <<file, cache, heap, task, now, ncmd, start_bal, loot, bjVars, tttVars, memVars, moreVars>>

\* Hands of up to MaxHand cards over aces, low cards, tens and court cards.
HandCards == {1, 2, 5, 9, 10, 11, 12, 13}
Hands == UNION {[1..n -> HandCards] : n \in 0..MaxHand}

call_get_hand_value ==
    /\ call = NoCall
    /\ \E hand \in Hands :
          call' = [fn |-> "get_hand_value", arg |-> hand, ret |-> get_hand_value(hand)]
    /\ UNCHANGED restVars

\* is_blackjack(hand), with get_hand_value(hand) beside it.
call_is_blackjack ==
    /\ call = NoCall
    /\ \E hand \in Hands :
          call' = [fn |-> "is_blackjack", arg |-> hand,
                   ret |-> <<is_blackjack(hand), get_hand_value(hand)>>]
    /\ UNCHANGED restVars

\* Shuffles scramble_word tries at most (wordscramble.py:163).
max_shuffles == 10

\* Words of up to MaxWord letters, with and without repeated letters.
Letters == {"a", "b", "c", "d"}
Words == UNION {[1..n -> Letters] : n \in 0..MaxWord}

\* word[::-1]
Reversed(word) == [i \in 1..Len(word) |-> word[Len(word) + 1 - i]]

\* The orders random.shuffle can leave a list of n items in.
Shuffles(n) == {p \in [1..n -> 1..n] : \A i, j \in 1..n : p[i] = p[j] => i = j}

\* The while condition of scramble_word.
keep_shuffling(word, word_list, attempts) == word_list = word /\ attempts < max_shuffles

\* WordScramble.scramble_word: a word of up to 3 letters is returned
\* reversed; a longer one enters the loop with its letters in order.
call_scramble_word ==
    /\ call = NoCall
    /\ \E word \in Words :
          call' = IF Len(word) <= 3
                  THEN [fn |-> "scramble_word", arg |-> word, ret |-> Reversed(word)]
                  ELSE [fn |-> "scramble_word.while", arg |-> word, ret |-> <<word, 0>>]
    /\ UNCHANGED restVars

\* One pass of the loop: the letters are shuffled in place, any order can
\* come out, the same one included.
scramble_shuffle ==
    /\ call.fn = "scramble_word.while"
    /\ keep_shuffling(call.arg, call.ret[1], call.ret[2])
    /\ \E p \in Shuffles(Len(call.arg)) :
          call' = [call EXCEPT !.ret = <<[i \in 1..Len(call.arg) |-> call.ret[1][p[i]]],
                                         call.ret[2] + 1>>]
    /\ UNCHANGED restVars

\* The loop ends and the letters are returned as they stand.
scramble_return ==
    /\ call.fn = "scramble_word.while"
    /\ ~keep_shuffling(call.arg, call.ret[1], call.ret[2])
    /\ call' = [fn |-> "scramble_word", arg |-> call.arg, ret |-> call.ret[1]]
    /\ UNCHANGED restVars

\* ------------------------------------------------------------------ ledger
\* The bot starts with an empty cache; a player's file exists or not.
InitFiles == [Players -> {NoFile} \cup {[NewRecord EXCEPT !.balance = b] : b \in InitBalances}]

\* Every player has a record with just the coins of one bet.
FundedFiles == [Players -> {[NewRecord EXCEPT !.balance = 50]}]

InitStore(n, files) ==
    /\ file \in files
    /\ cache = [p \in Players |-> 0]
    /\ heap = [o \in ObjIds |-> NoRec]
    /\ task = [t \in Tasks |-> Idle]
    /\ now = Epoch
    /\ ncmd = n
    /\ start_bal = [p \in Players |-> IF file[p] = NoFile THEN 0 ELSE file[p].balance]

InitLedgerFrom(n, files) == InitStore(n, files) /\ loot = NoLog

InitLedger(n) == InitLedgerFrom(n, InitFiles)

\* No game is registered or pending; r and c are the cards and the board
\* positions the run will see.
InitGames(r, c) ==
    /\ ranks = r
    /\ bj_games = [p \in Players |-> "none"]
    /\ bj = [t \in Tasks |-> NoGame]
    /\ cells = c
    /\ ttt_games = "none"
    /\ pending_challenges = [p \in Players |-> "none"]
    /\ ttt = [t \in Tasks |-> NoGame]
    /\ mem_games = [p \in Players |-> "none"]
    /\ mem = [t \in Tasks |-> NoGame]
    /\ ng_games = [p \in Players |-> "none"]
    /\ ng = [t \in Tasks |-> NoGame]
    /\ sn_games = [p \in Players |-> "none"]
    /\ sn = [t \in Tasks |-> NoGame]
    /\ hm_games = [p \in Players |-> "none"]
    /\ hm = [t \in Tasks |-> NoGame]
    /\ rps_games = [p \in Players |-> "none"]
    /\ rps_stats = [p \in Players |-> NoStats]
    /\ ws_games = "none"
    /\ ws = [t \in Tasks |-> NoGame]
    /\ duel = [t \in Tasks |-> NoGame]
    /\ call = NoCall

Init == InitLedger(MaxCmds) /\ InitGames({}, {})
InitSeq == InitLedger(SeqCmds) /\ InitGames({}, {})

EconomyStep(t) ==
    \/ balance_command(t) \/ balance_show(t)
    \/ leaderboard(t) \/ inventory_command(t)
    \/ daily(t) \/ daily_claim(t)
    \/ work(t) \/ work_put(t)
    \/ pay(t) \/ pay_sender(t) \/ pay_transfer(t) \/ pay_put_recipient(t)
    \/ gamble(t) \/ gamble_roll(t)
    \/ shop_buy(t) \/ buy_check(t) \/ buy_wait(t) \/ buy_deduct(t)
    \/ add_balance(t) \/ remove_balance(t) \/ remove_currency(t)

\* Two handlers at a time on the ledger.
Next == \E t \in Tasks : EconomyStep(t)
Spec == Init /\ [][Next]_vars

\* One handler at a time: transfers and the balance calls of other cogs.
NextSeq ==
    \/ pay("t1") \/ pay_sender("t1") \/ pay_transfer("t1") \/ pay_put_recipient("t1")
    \/ add_balance("t1") \/ remove_balance("t1") \/ remove_currency("t1")
SpecSeq == InitSeq /\ [][NextSeq]_vars

\* Two callers of add_balance / remove_balance only.
NextLedger ==
    \E t \in Tasks :
        add_balance(t) \/ remove_balance(t) \/ remove_currency(t)
SpecLedger == InitSeq /\ [][NextLedger]_vars

\* Two blackjack commands, with no bet given and with bets of 5, 50 and 1001,
\* by players with no record, 50 and 200 coins.
InitBlackjack == InitLedger(MaxCmds) /\ InitGames({10}, {})

NextBlackjack == \E t \in Tasks : blackjack(t)

SpecBlackjack == InitBlackjack /\ [][NextBlackjack]_vars

TttStep(t) ==
    \/ tictactoe(t) \/ ttt_challenge(t) \/ ttt_pending(t) \/ ttt_start(t) \/ ttt_move(t)
    \/ ttt_timeout(t) \/ ttt_refund1(t) \/ ttt_end(t) \/ ttt_cleanup(t)

\* Two tictactoe commands without a bet at a time in one channel; the players
\* click the top row and the first two cells of the middle row.
InitTtt == InitLedgerFrom(MaxCmds, FundedFiles) /\ InitGames({}, {0, 1, 2, 3, 4})
NextTtt ==
    \E t \in Tasks :
        \/ tictactoe_unwagered(t) \/ ttt_challenge(t) \/ ttt_pending(t) \/ ttt_start(t)
        \/ ttt_move(t) \/ ttt_timeout(t) \/ ttt_refund1(t) \/ ttt_end(t) \/ ttt_cleanup(t)
SpecTtt == InitTtt /\ [][NextTtt]_vars

\* One tictactoe command at a time, with a bet of -5, 0 or 50; the players
\* click the top row, the middle row and the first cell of the bottom row.
InitTttWager == InitLedgerFrom(MaxCmds, FundedFiles) /\ InitGames({}, 0..6)

NextTttWager == TttStep("t1")

SpecTttWager == InitTttWager /\ [][NextTttWager]_vars

\* Number-guess games of one handler at a time.
InitNumGuess == InitLedgerFrom(GameCmds, FundedFiles) /\ InitGames({}, {})
NextNumGuess ==
    \/ numguess("t1") \/ ng_guess("t1") \/ ng_timeout("t1") \/ ng_cleanup("t1")
SpecNumGuess == InitNumGuess /\ [][NextNumGuess]_vars

\* Two gift commands at a time; the first player owns two items.
GiftStock == <<"lootbox_common", "lootbox_rare">>
GiftFiles ==
    {f \in [Players -> {NoFile, NewRecord, [NewRecord EXCEPT !.inventory = GiftStock]}] :
        /\ f["p1"] = [NewRecord EXCEPT !.inventory = GiftStock]
        /\ f["p2"] \in {NoFile, NewRecord}}
InitGift == InitLedgerFrom(MaxCmds, GiftFiles) /\ InitGames({}, {})
NextGift == \E t \in Tasks : inventory_gift(t) \/ gift_sent(t)
SpecGift == InitGift /\ [][NextGift]_vars

\* Booster purchases of one handler at a time by players who can pay one,
\* two or three.
RichFiles ==
    [Players -> {[NewRecord EXCEPT !.balance = n * booster_price] : n \in 1..3}]
InitBooster == InitLedgerFrom(SeqCmds, RichFiles) /\ InitGames({}, {})
NextBooster ==
    \/ shop_buy_booster("t1") \/ buy_check("t1") \/ buy_deduct("t1")
    \/ boosters("t1") \/ boosters_show("t1")
SpecBooster == InitBooster /\ [][NextBooster]_vars

\* One snake game.
InitSnake == InitLedgerFrom(1, FundedFiles) /\ InitGames({}, {})
NextSnake ==
    \/ snake("t1") \/ snake_move("t1") \/ snake_stop("t1") \/ snake_over("t1")
    \/ snake_cleanup("t1")
SpecSnake == InitSnake /\ [][NextSnake]_vars

\* WordScramble.scramble_word on every word.
InitScramble == InitLedgerFrom(0, FundedFiles) /\ InitGames({}, {})
NextScramble == call_scramble_word \/ scramble_shuffle \/ scramble_return
SpecScramble == InitScramble /\ [][NextScramble]_vars

\* make_move calls on one board.
InitBoard == InitLedgerFrom(0, FundedFiles) /\ InitGames({}, {})
NextBoard == board_new \/ call_make_move
SpecBoard == InitBoard /\ [][NextBoard]_vars

\* BlackjackGame.get_hand_value and is_blackjack on every hand.
InitHands == InitLedgerFrom(0, FundedFiles) /\ InitGames({}, {})
NextHands == call_get_hand_value \/ call_is_blackjack
SpecHands == InitHands /\ [][NextHands]_vars

\* Gamble commands one after the other, with every roll of the dice.
InitGamble == InitLedger(MaxCmds) /\ InitGames({}, {})
NextGamble == gamble("t1") \/ gamble_roll_any("t1")
SpecGamble == InitGamble /\ [][NextGamble]_vars

\* Daily claims one after the other, by players with and without a record.
Alone(t) == \A t2 \in Tasks \ {t} : Free(t2)
InitDaily == InitLedger(MaxCmds) /\ InitGames({}, {})
NextDaily ==
    \E t \in Tasks :
        \/ Alone(t) /\ daily(t)
        \/ daily_claim_near(t)
SpecDaily == InitDaily /\ [][NextDaily]_vars

\* One memory game on the easy grid.
InitMemory == InitLedgerFrom(GameCmds, FundedFiles) /\ InitGames({}, {})
NextMemory ==
    \/ memory("t1") \/ mem_row("t1") \/ mem_column("t1") \/ mem_end("t1") \/ mem_timeout("t1")
    \/ mem_cleanup("t1")
SpecMemory == InitMemory /\ [][NextMemory]_vars

\* Sessions of the seven games with a timeout, one after the other, whose
\* players never react once the session waits for them: a tictactoe
\* challenge may be accepted, nothing else is clicked or typed.  Every wait
\* of the program has a timeout, and the event loop runs every coroutine that
\* is ready: the steps that need no player are weakly fair, for the command
\* and for the timeout task of a word scramble.
InitIdle == InitLedgerFrom(MaxCmds, FundedFiles) /\ InitGames({6, 13}, {})
ttt_accept(t) == ttt_pending(t) /\ task'[t].pc = "ttt_start"
ttt_no_reply(t) == ttt_pending(t) /\ task'[t].res = "expired"
IdleStart(t) ==
    \/ blackjack(t) \/ tictactoe(t) \/ ttt_accept(t) \/ memory(t) \/ numguess(t)
    \/ hangman(t) \/ rps(t) \/ wordscramble_easy(t)
IdleStep(t) ==
    \/ ttt_challenge(t) \/ ttt_no_reply(t) \/ ttt_start(t)
    \/ ttt_timeout(t) \/ ttt_refund1(t) \/ ttt_cleanup(t)
    \/ mem_timeout(t) \/ ng_timeout(t) \/ ng_cleanup(t)
    \/ hm_timeout(t) \/ hm_end(t) \/ hm_cleanup(t)
    \/ rps_timeout(t) \/ rps_cleanup(t)
    \/ ws_start(t) \/ ws_timeout(t) \/ ws_cleanup(t)
IdleTimer(t) == ws_hint1(t) \/ ws_hint2(t) \/ ws_timer_end(t) \/ ws_timer_del(t)
NextIdle == IdleStart("t1") \/ IdleStep("t1") \/ IdleTimer("t1")
SpecIdle ==
    InitIdle /\ [][NextIdle]_vars /\ WF_vars(IdleStep("t1")) /\ WF_vars(IdleTimer("t1"))

\* One snake game whose player steers, or stops, during the first moves and
\* never reacts again; the movement task, the game loop and end_game run
\* whenever they can.  No game stopped that early has a score, so that no
\* reward is credited.
IdlePresses(moved) ==
    IF moved < MaxMoves THEN UNION {[1..n -> Directions] : n \in 0..MaxKeys} ELSE {<<>>}
snake_move_idle(t) == \E keys \in IdlePresses(task[t].amt) : SnakeMove(t, keys)
SnakeRuns(t) == snake_move_idle(t) \/ snake_over(t) \/ snake_cleanup(t)
NextSnakeIdle == snake("t1") \/ snake_stop("t1") \/ SnakeRuns("t1")
SpecSnakeIdle == InitSnake /\ [][NextSnakeIdle]_vars /\ WF_vars(SnakeRuns("t1"))

\* Start commands of one of the six games in two coroutines at a time,
\* three in all; a session ends when its player stops it or lets its time
\* pass.  The registries of different games are different dicts: a run
\* keeps to the game of its first command.
InitStarts == InitLedgerFrom(SeqCmds, FundedFiles) /\ InitGames({}, {})
SameGame(t) == \A t2 \in Tasks : task[t2].op \in {"none", task'[t].op}
rps_decline(t) == rps_reply(t) /\ task'[t].pc = "rps_declined"
StartStep(t) ==
    /\ \/ hangman(t) \/ numguess(t) \/ snake(t) \/ memory(t) \/ rps(t)
       \/ wordscramble_easy(t)
    /\ SameGame(t)
EndStep(t) ==
    \/ hm_timeout(t) \/ hm_end(t) \/ hm_cleanup(t)
    \/ ng_timeout(t) \/ ng_cleanup(t)
    \/ snake_stop(t) \/ snake_over(t) \/ snake_cleanup(t)
    \/ mem_timeout(t)
    \/ rps_timeout(t) \/ rps_decline(t) \/ rps_decline_del(t) \/ rps_cleanup(t)
    \/ ws_start(t) \/ ws_timeout(t) \/ ws_cleanup(t)
    \/ ws_hint1(t) \/ ws_hint2(t) \/ ws_timer_end(t) \/ ws_timer_del(t)
NextStarts == \E t \in Tasks : StartStep(t) \/ EndStep(t)
SpecStarts == InitStarts /\ [][NextStarts]_vars

\* One rps_duel at a time between two players with 50 coins each, with a
\* bet of -5, 0, 20 or 60.
InitDuel == InitLedgerFrom(GameCmds, FundedFiles) /\ InitGames({}, {})

NextDuel == rps_duel("t1") \/ duel_reply("t1") \/ duel_choose("t1") \/ duel_show("t1")

SpecDuel == InitDuel /\ [][NextDuel]_vars

\* One BlackjackGame object and the calls of its methods in any order; aces,
\* sixes and kings on top of the deck.
InitBlackjackGame == InitLedgerFrom(0, FundedFiles) /\ InitGames({1, 6, 13}, {})

NextBlackjackGame ==
    \/ bj_new \/ call_check_game_over \/ call_player_hit \/ call_player_stand
    \/ call_calculate_reward

SpecBlackjackGame == InitBlackjackGame /\ [][NextBlackjackGame]_vars

\* One snake game steered through SteerTicks ticks.
InitSteer == InitLedgerFrom(0, FundedFiles) /\ InitGames({}, {})
NextSteer == steer_new \/ steer_tick
SpecSteer == InitSteer /\ [][NextSteer]_vars

\* One hangman game at a time, played by letters and by whole words.
InitHangman == InitLedgerFrom(GameCmds, FundedFiles) /\ InitGames({}, {})
NextHangman ==
    \/ hangman("t1") \/ hm_guess("t1") \/ hm_check("t1") \/ hm_timeout("t1") \/ hm_end("t1")
    \/ hm_cleanup("t1")
SpecHangman == InitHangman /\ [][NextHangman]_vars

\* Word scramble sessions of one handler, one after the other: the game is
\* answered or left to its two timers.
InitWordGame == InitLedgerFrom(SeqCmds, FundedFiles) /\ InitGames({}, {})
NextWordGame ==
    \/ wordscramble("t1") \/ ws_start("t1") \/ ws_answer("t1") \/ ws_timeout("t1")
    \/ ws_cleanup("t1")
    \/ ws_hint1("t1") \/ ws_hint2("t1") \/ ws_timer_end("t1") \/ ws_timer_del("t1")
SpecWordGame == InitWordGame /\ [][NextWordGame]_vars

\* Rounds, one at a time: `!rps @member`, `!rps` against the bot and
\* `!rps_duel`.
InitRounds == InitLedgerFrom(GameCmds, FundedFiles) /\ InitGames({}, {})
NextRounds ==
    \/ rps("t1") \/ rps_bot("t1") \/ rps_reply("t1") \/ rps_decline_del("t1")
    \/ rps_choose("t1") \/ rps_tie2("t1")
    \/ rps_record("t1") \/ rps_timeout("t1") \/ rps_cleanup("t1")
    \/ rps_duel("t1") \/ duel_reply("t1") \/ duel_choose("t1") \/ duel_show("t1")

SpecRounds == InitRounds /\ [][NextRounds]_vars

\* Lootboxes of one handler at a time: players with the price of one and
\* nothing in the inventory buy, open and use them; the run counts.
LootFiles == [Players -> {[NewRecord EXCEPT !.balance = lootbox_price]}]
InitLoot ==
    /\ InitStore(SeqCmds, LootFiles)
    /\ loot = [p \in Players |-> [bought |-> 0, opened |-> 0]]
    /\ InitGames({}, {})
NextLoot ==
    \/ shop_buy_lootbox("t1") \/ buy_check("t1") \/ buy_wait("t1") \/ buy_deduct("t1")
    \/ inventory_use_lootbox("t1") \/ use_find("t1") \/ use_remove("t1")
SpecLoot == InitLoot /\ [][NextLoot]_vars

\* Two inventory commands at a time; the first player has bought and kept
\* a common and a rare lootbox (shop.py 494).  The shop puts lootboxes and
\* role items in the inventory and boosters in the list of boosters (shop.py
\* 262-263, 595): no inventory holds an item of type booster, and the
\* branch of use_find that activates one is never taken.
UseStock == <<"lootbox_common", "lootbox_rare">>
UseFiles ==
    {f \in [Players -> {NoFile, NewRecord, [NewRecord EXCEPT !.inventory = UseStock]}] :
        /\ f["p1"] = [NewRecord EXCEPT !.inventory = UseStock]
        /\ f["p2"] \in {NoFile, NewRecord}}
InitUse == InitLedgerFrom(MaxCmds, UseFiles) /\ InitGames({}, {})
NextUse ==
    \E t \in Tasks :
        \/ inventory_use(t) \/ use_find(t) \/ use_remove(t)
        \/ inventory_gift(t) \/ gift_sent(t)
SpecUse == InitUse /\ [][NextUse]_vars

\* ================================================================== claims
FinishedOp(t, ops) == task[t].pc = "done" /\ task[t].op \in ops

\* C1 (as claimed): in every reachable state every player's stored balance,
\* in the cache and in the file, is >= 0, whatever the interleaving of
\* daily, work, pay, gamble, shop buy, add_balance and remove_balance.
BalanceNeverNegative ==
    \A p \in Players :
        /\ Balance(p) >= 0
        /\ file[p] # NoFile => file[p].balance >= 0

\* C4: two add_balance calls of two coroutines on one record, crediting a
\* and b and nothing else running, leave initial + a + b in the cache and
\* in the file, in whichever order the event loop runs them and also when
\* the record did not exist before.  (No read or write of the ledger gives
\* up the event loop: each call is over before the other starts.)
NoLostUpdate ==
    \A u \in Players :
        ( /\ ncmd = SeqCmds - 2
          /\ \A t \in Tasks : FinishedOp(t, {"add_balance"}) /\ task[t].who = u )
        => /\ Balance(u) = start_bal[u] + task["t1"].amt + task["t2"].amt
           /\ file[u] # NoFile
           /\ file[u].balance = Balance(u)

NoLostUpdateWitness ==
    \E u \in Players :
        /\ ncmd = SeqCmds - 2
        /\ \A t \in Tasks : FinishedOp(t, {"add_balance"}) /\ task[t].who = u
        /\ start_bal[u] = 0
        /\ task["t1"].amt = 50 /\ task["t2"].amt = 100
        /\ task["t1"].pre = 100
        /\ Balance(u) = 150

\* C5 (as claimed): a debit of more than the balance reports failure and
\* leaves the balance as it was.
DebitFailsWhenShort ==
    \A t \in Tasks :
        FinishedOp(t, Debits) /\ task[t].pre < task[t].amt
        => task[t].res = "False" /\ Balance(task[t].who) = task[t].pre

\* C5 (amended): remove_balance and remove_currency never fail: a debit of
\* more than the balance sets the balance to 0, a debit of at most the
\* balance subtracts exactly the amount; remove_balance returns True and
\* remove_currency the new balance.
DebitClampsAtZero ==
    \A t \in Tasks :
        FinishedOp(t, Debits)
        => LET left == IF task[t].pre < task[t].amt THEN 0 ELSE task[t].pre - task[t].amt
           IN  /\ Balance(task[t].who) = left
               /\ task[t].out = left
               /\ task[t].op = "remove_balance" => task[t].res = "True"

DebitClampsAtZeroWitness ==
    \E t \in Tasks :
        /\ FinishedOp(t, {"remove_balance"})
        /\ task[t].pre = 50 /\ task[t].amt = 100
        /\ Balance(task[t].who) = 0

\* C6: a pay command run on its own changes no balance when the amount is
\* <= 0, the recipient is the sender or the sender has less than the amount;
\* otherwise it takes exactly the amount from the sender and gives exactly
\* the amount to the recipient.
PayAllOrNothing ==
    \A t \in Tasks :
        FinishedOp(t, {"pay"})
        => LET fr == task[t]
           IN  IF fr.amt <= 0 \/ fr.other = fr.who \/ fr.pre < fr.amt
               THEN /\ fr.res # "ok"
                    /\ Balance(fr.who) = fr.pre
                    /\ Balance(fr.other) = fr.pre2
               ELSE /\ fr.res = "ok"
                    /\ Balance(fr.who) = fr.pre - fr.amt
                    /\ Balance(fr.other) = fr.pre2 + fr.amt
                    /\ Balance(fr.who) + Balance(fr.other) = fr.pre + fr.pre2

PayAllOrNothingWitness ==
    \E t \in Tasks :
        /\ FinishedOp(t, {"pay"})
        /\ task[t].res = "ok"
        /\ task[t].amt > 0
        /\ Balance(task[t].other) = task[t].pre2 + task[t].amt

\* C2 (as claimed): a blackjack invocation with a bet within the limits
\* either creates the player's one session or is rejected, as already active
\* or for insufficient funds; it ends in no other way.
BlackjackStartAtomic ==
    \A t \in Tasks :
        (FinishedOp(t, {"blackjack"}) /\ task[t].amt \in min_bet..max_bet)
        => task[t].res \in {"ok", "already_active", "insufficient"}

\* C8 (as claimed): a blackjack command with a bet within the limits that
\* the player can pay starts a game; when the game ends by the 60-second
\* timeout, the player's balance is the one before the game and the
\* player's slot is free.
BlackjackTimeoutRefunds ==
    \A t \in Tasks :
        (FinishedOp(t, {"blackjack"}) /\ task[t].amt \in min_bet..max_bet
            /\ task[t].pre >= task[t].amt)
        => /\ task[t].res = "ok"
           /\ task[t].sub = "timeout"
                 => Balance(task[t].who) = task[t].pre /\ bj_games[task[t].who] = "none"

\* A tictactoe coroutine that has created its TicTacToeGame and not returned.
TttActive(t) == task[t].op = "tictactoe" /\ ~Free(t) /\ ttt[t] # NoGame

\* C3 (as claimed): a channel has at most one game: when two pending
\* challenges are both accepted, the second neither starts a second game nor
\* replaces the registered one.
OneGamePerChannel ==
    /\ \A t1 \in Tasks, t2 \in Tasks : t1 # t2 => ~(TttActive(t1) /\ TttActive(t2))
    /\ \A t \in Tasks : TttActive(t) /\ task[t].pc # "ttt_cleanup" => ttt_games = t

\* The results of a challenge that was refused, declined or left unanswered.
TttRefusals ==
    {"in_progress", "no_target", "self", "negative_bet", "pending", "insufficient",
     "insufficient_target", "declined", "expired"}

\* C7 (as claimed): a challenge with a bet that is not refused is played, and
\* the game only moves the bets between the two players: against the
\* balances at the moment the game starts, a win gives the winner exactly
\* the bet and costs the loser exactly the bet, a draw and a timeout leave
\* both as they were, and the sum of the two is unchanged.
WagerOnlyRedistributes ==
    \A t \in Tasks :
        (FinishedOp(t, {"tictactoe"}) /\ task[t].amt > 0 /\ task[t].res \notin TttRefusals)
        => LET fr == task[t]
               gain == IF fr.item = "player1" THEN fr.amt
                       ELSE IF fr.item = "player2" THEN 0 - fr.amt ELSE 0
           IN  /\ fr.res = "ok"
               /\ Balance(fr.who) = fr.pre + gain
               /\ Balance(fr.other) = fr.pre2 - gain
               /\ Balance(fr.who) + Balance(fr.other) = fr.pre + fr.pre2

\* A memory coroutine waiting for a click on its board.
MemWaiting(t) == task[t].op = "memory" /\ task[t].pc = "mem_wait"

\* C9 (as claimed): after a mismatch both cards are face down again and the
\* next pick is a new first pick: whenever the game waits for a click, the
\* number of face-up cards is twice the matches, plus one if a first pick is
\* pending.
MismatchHidesBoth ==
    \A t \in Tasks :
        MemWaiting(t)
        => Cardinality(mem[t].revealed)
             = 2 * mem[t].matches + (IF mem[t].first_pick # -1 THEN 1 ELSE 0)

\* C10 (as claimed): the game has ended exactly when all pairs are matched,
\* and no board has every card face up with fewer matches than pairs, so
\* that the last pair can always still be made.
NoDeadBoard ==
    \A t \in Tasks :
        mem[t] # NoGame
        => /\ mem[t].end_time # -1 <=> mem[t].matches = num_pairs
           /\ ~(mem[t].revealed = MemCells /\ mem[t].matches < num_pairs)

\* The record a reader of the store sees for player p.
Stored(p) ==
    IF cache[p] # 0 THEN heap[cache[p]] ELSE IF file[p] # NoFile THEN file[p] ELSE NewRecord

\* Two finished daily claims of one player: the first found a fresh record
\* (streak 0, no previous claim) at clock reading t0, the second came gap
\* seconds later and found the record as the first had left it.
TwoClaims(a, b, t0, gap) ==
    /\ a # b
    /\ FinishedOp(a, {"daily"}) /\ FinishedOp(b, {"daily"})
    /\ task[a].who = task[b].who
    /\ task[a].last = 0 /\ task[a].streak = 0
    /\ task[a].at = t0 /\ task[b].at = t0 + gap
    /\ task[b].last = (IF task[a].res = "ok" THEN t0 ELSE 0)
    /\ Stored(task[b].who).last_daily = task[b].at

\* C13: from a fresh record (streak 0, no previous claim), a daily claim
\* and one 90000 s after it both succeed and leave the streak at 2, the
\* second claim paying a streak bonus of exactly 100 (2 x 50), whatever the
\* clock read at the first claim.  The claim counts the seconds from the
\* first claim, its t = 0; the clock of the program is int(time.time()).
DailyStreakOfTwo ==
    \A a \in Tasks, b \in Tasks : \A t0 \in DailyTimes :
        TwoClaims(a, b, t0, 90000)
        => /\ task[a].res = "ok" /\ task[b].res = "ok"
           /\ Stored(task[b].who).daily_streak = 2
           /\ task[b].out - task[b].amt = 2 * daily_streak_bonus
           /\ 2 * daily_streak_bonus = 100

DailyStreakOfTwoWitness ==
    \E a \in Tasks, b \in Tasks :
        /\ TwoClaims(a, b, Epoch, 90000)
        /\ Stored(task[b].who).daily_streak = 2
        /\ task[b].out = daily_min + 100

\* C14: a daily claim made less than 86400 s after the player's last
\* successful claim is rejected and leaves balance, streak and last-claim
\* time as they were; one made 86400 s or more after it succeeds.  (A record
\* has a last successful claim when its last_daily is not 0; while the clock
\* still reads what it read at the rejection no later claim has touched the
\* record.)
DailyCooldown ==
    \A t \in Tasks :
        (FinishedOp(t, {"daily"}) /\ task[t].last # 0)
        => IF task[t].at - task[t].last < 86400
           THEN /\ task[t].res = "TooSoon"
                /\ now = task[t].at
                   => /\ Balance(task[t].who) = task[t].pre
                      /\ Stored(task[t].who).daily_streak = task[t].streak
                      /\ Stored(task[t].who).last_daily = task[t].last
           ELSE task[t].res = "ok"

DailyCooldownWitness ==
    \E t \in Tasks :
        /\ FinishedOp(t, {"daily"}) /\ task[t].res = "TooSoon"
        /\ task[t].last = Epoch + 86400 /\ task[t].at = Epoch + 172799
        /\ Stored(task[t].who).last_daily = Epoch + 86400
        /\ Balance(task[t].who) = task[t].pre

\* C11 (as claimed): is_blackjack is true exactly of the hands of two cards,
\* one an ace and the other a 10, J, Q or K, and every hand it accepts has
\* the value 21.
NaturalIsAceAndTen ==
    call.fn = "is_blackjack"
    => LET hand == call.arg
           ace_ten == /\ Len(hand) = 2
                      /\ \/ hand[1] = 1 /\ hand[2] \in 10..13
                         \/ hand[2] = 1 /\ hand[1] \in 10..13
       IN  /\ call.ret[1] <=> ace_ten
           /\ call.ret[1] => call.ret[2] = 21

\* The raw sum of a hand: 11 for an ace, 10 for a court card.
RECURSIVE RawSum(_)
RawSum(hand) ==
    IF hand = <<>> THEN 0
    ELSE (IF Head(hand) = 1 THEN 11 ELSE IF Head(hand) \in 11..13 THEN 10 ELSE Head(hand))
         + RawSum(Tail(hand))

\* C12: get_hand_value is the raw sum less 10 for each demoted ace, aces
\* being demoted one at a time and only while the value is above 21; the
\* result is above 21 only when every ace counts 1.
HandValueDemotesAces ==
    call.fn = "get_hand_value"
    => LET hand == call.arg
           aces == Cardinality({i \in DOMAIN hand : hand[i] = 1})
           enough == {k \in 0..aces : RawSum(hand) - 10 * k <= 21}
           demoted == IF enough = {} THEN aces
                      ELSE CHOOSE k \in enough : \A j \in enough : k <= j
       IN  /\ call.ret = RawSum(hand) - 10 * demoted
           /\ call.ret > 21 => demoted = aces

\* A bust with two aces, both counted as 1.
HandValueDemotesAcesWitness ==
    /\ call.fn = "get_hand_value"
    /\ call.arg = <<1, 1, 10, 13>>
    /\ call.ret = 22

\* The wager of a gamble command on a balance: `all`, `half` or the number.
Wager(fr) ==
    IF fr.item = "all" THEN fr.pre ELSE IF fr.item = "half" THEN fr.pre \div 2 ELSE fr.amt

\* Twice the multiplier of a roll.
TwiceMultiplier(roll) ==
    IF roll \in 1..30 THEN 0 ELSE IF roll \in 31..50 THEN 2 ELSE IF roll \in 51..70 THEN 3
    ELSE IF roll \in 71..90 THEN 4 ELSE IF roll \in 91..99 THEN 6 ELSE 10

\* C15: gamble is a function of balance, wager and roll: a wager <= 0 or
\* above the balance is refused and the balance stays; otherwise the new
\* balance is balance + floor(wager x multiplier) - wager, the multiplier
\* being 0, 1, 1.5, 2, 3, 5 for rolls 1-30, 31-50, 51-70, 71-90, 91-99, 100.
GambleByRoll ==
    \A t \in Tasks :
        FinishedOp(t, {"gamble"})
        => LET fr == task[t]
           IN  IF Wager(fr) <= 0 \/ Wager(fr) > fr.pre
               THEN fr.res # "ok" /\ Balance(fr.who) = fr.pre
               ELSE /\ fr.res = "ok"
                    /\ fr.out \in 1..100
                    /\ Balance(fr.who)
                         = fr.pre + (Wager(fr) * TwiceMultiplier(fr.out)) \div 2 - Wager(fr)

\* Half of 50 on a roll of 70: 25 x 1.5 is paid as 37.
GambleByRollWitness ==
    \E t \in Tasks :
        /\ FinishedOp(t, {"gamble"}) /\ task[t].res = "ok"
        /\ task[t].item = "half" /\ task[t].pre = 50 /\ task[t].out = 70
        /\ Balance(task[t].who) = 62

\* C16 (as claimed): a blackjack command with a bet of 10..1000 above the
\* player's balance (balance 0 and bet 10 among them) is refused for
\* insufficient funds: no game is registered and the balance stays.
BlackjackNeedsFunds ==
    \A t \in Tasks :
        (FinishedOp(t, {"blackjack"}) /\ task[t].amt \in min_bet..max_bet
            /\ task[t].pre < task[t].amt)
        => /\ task[t].res = "insufficient"
           /\ bj_games[task[t].who] = "none"
           /\ Balance(task[t].who) = task[t].pre

\* The 8 lines of the board, as sets of positions 0..8.
Lines ==
    {{0, 1, 2}, {3, 4, 5}, {6, 7, 8}, {0, 3, 6}, {1, 4, 7}, {2, 5, 8}, {0, 4, 8}, {2, 4, 6}}

\* The lines of game g completely filled with mark m.
Filled(g, m) ==
    IF g = NoGame THEN {} ELSE {l \in Lines : \A c \in l : g.board[c + 1] = m}

\* C17 (as claimed): after any sequence of legal moves at most one of the 8
\* lines is completely filled with one player's symbol.
OneCompletedLine ==
    Cardinality(Filled(ttt["t1"], "X") \cup Filled(ttt["t1"], "O")) <= 1

\* C17 (amended): after any sequence of legal moves the completely filled
\* lines all hold one player's symbol and are at most two; lines are only
\* completed while none is complete yet, and every line a move completes
\* goes through the cell of that move, so two lines are completed only
\* together, by one move in the cell where they cross.
CompletedLinesOfOneMove ==
    [][ LET g == ttt["t1"]
            h == ttt'["t1"]
            before == Filled(g, "X") \cup Filled(g, "O")
            after == Filled(h, "X") \cup Filled(h, "O")
            moved == IF g = NoGame THEN {}
                     ELSE {c \in 0..8 : g.board[c + 1] # h.board[c + 1]}
        IN  /\ Filled(h, "X") = {} \/ Filled(h, "O") = {}
            /\ Cardinality(after) <= 2
            /\ after # before => /\ before = {}
                                 /\ Cardinality(moved) = 1
                                 /\ \A l \in after : moved \subseteq l ]_vars

\* X has completed the top row and the left column with one move.
CompletedLinesOfOneMoveWitness ==
    /\ ttt["t1"] # NoGame
    /\ Filled(ttt["t1"], "X") = {{0, 1, 2}, {0, 3, 6}}
    /\ call.fn = "make_move" /\ call.arg = <<0, "p1">> /\ call.ret

\* C18: X and O never both have a completed line; the winner is only ever
\* the player who owns a completed line; once game_over is true no
\* make_move is accepted and the board stays as it is.
NoBothWinAndFrozen ==
    [][ LET g == ttt["t1"]
            h == ttt'["t1"]
        IN  /\ Filled(h, "X") = {} \/ Filled(h, "O") = {}
            /\ h.winner = h.player1 => Filled(h, "X") # {}
            /\ h.winner = h.player2 => Filled(h, "O") # {}
            /\ h.winner \in {"None", h.player1, h.player2}
            /\ (g # NoGame /\ g.game_over) => /\ h = g
                                               /\ call'.ret = FALSE ]_vars

\* A move was refused on a board that X had won.
NoBothWinAndFrozenWitness ==
    /\ ttt["t1"] # NoGame
    /\ ttt["t1"].game_over /\ ttt["t1"].winner = "p1"
    /\ Filled(ttt["t1"], "X") # {}
    /\ call.fn = "make_move" /\ call.arg[1] \in 0..8 /\ call.ret = FALSE
    /\ ttt["t1"].board[call.arg[1] + 1] = "None"

\* Two strings with the same letters, each as many times.
SameLetters(a, b) ==
    /\ Len(a) = Len(b)
    /\ \A x \in Letters :
          Cardinality({i \in 1..Len(a) : a[i] = x}) =
              Cardinality({i \in 1..Len(b) : b[i] = x})

\* C19: whatever the shuffles give, scramble_word of a word of more than 3
\* letters returns a string other than the word, and for a word of any
\* length it returns the letters of the word rearranged.
ScrambleDiffers ==
    call.fn = "scramble_word" =>
        /\ Len(call.arg) > 3 => call.ret # call.arg
        /\ SameLetters(call.ret, call.arg)

\* C20: in a number-guess game the attempts are the guesses made and never
\* exceed max_attempts; the game is won exactly when the last guess is the
\* secret, the max_attempts-th guess included, and lost exactly when the
\* max_attempts-th guess is wrong; a game won on attempt k has credited
\* base + floor(base x (max_attempts - k) / 10) coins once its result is
\* out, and a game not won has credited nothing.
NumberGuessOutcome ==
    \A t \in Tasks :
        ng[t] # NoGame =>
            LET g == ng[t]
                k == g.attempts
                hit == k >= 1 /\ g.guesses[k] = g.secret_number
                paid == g.reward + (g.reward * (g.max_attempts - k)) \div 10
            IN  /\ k = Len(g.guesses) /\ k <= g.max_attempts
                /\ g.status = "won" <=> hit
                /\ g.status = "lost" <=> (k = g.max_attempts /\ ~hit)
                /\ task[t].pc \in {"ng_cleanup", "done"} =>
                      /\ g.status # "active"
                      /\ Balance(task[t].who) =
                             task[t].pre + (IF g.status = "won" THEN paid ELSE 0)

\* An easy game with secret 25 was won by the guesses 10, 40, 25 and paid 65.
NumberGuessOutcomeWitness ==
    /\ ng["t1"] # NoGame
    /\ ng["t1"].difficulty = "easy" /\ ng["t1"].max_attempts = 6 /\ ng["t1"].reward = 50
    /\ ng["t1"].secret_number = 25 /\ ng["t1"].guesses = <<10, 40, 25>>
    /\ ng["t1"].status = "won" /\ ng["t1"].attempts = 3
    /\ task["t1"].pc = "done"
    /\ Balance(task["t1"].who) = task["t1"].pre + 65

\* The cells of the grid of game g.
Grid(g) == {<<x, y>> : x \in 0..(g.width - 1), y \in 0..(g.height - 1)}

\* The snake of game g: inside the grid, no cell twice, one cell per point
\* of the score and one more.
SnakeShape(g) ==
    /\ \A i \in 1..Len(g.snake) : g.snake[i] \in Grid(g)
    /\ \A i, j \in 1..Len(g.snake) : g.snake[i] = g.snake[j] => i = j
    /\ Len(g.snake) = g.score + 1

\* C21 (as claimed): in every snake state the snake's cells and the food
\* lie inside the grid, the cells are pairwise distinct, the length is
\* score + 1 and the food is not on a cell of the snake.
SnakeAndFoodInGrid ==
    \A t \in Tasks :
        sn[t] # NoGame =>
            /\ SnakeShape(sn[t])
            /\ sn[t].food \in Grid(sn[t])
            /\ sn[t].food \notin SeqRange(sn[t].snake)

\* C21 (amended): in every snake state the snake's cells lie inside the
\* grid, are pairwise distinct and are score + 1 in number; there is a
\* food, inside the grid and not on a cell of the snake, as long as the
\* snake leaves a cell of the grid empty, and no food once it fills the grid.
SnakeAndFoodWhileRoom ==
    \A t \in Tasks :
        sn[t] # NoGame =>
            /\ SnakeShape(sn[t])
            /\ IF SeqRange(sn[t].snake) = Grid(sn[t])
               THEN sn[t].food = "None"
               ELSE /\ sn[t].food \in Grid(sn[t])
                    /\ sn[t].food \notin SeqRange(sn[t].snake)

\* A snake that has grown moved right out of the last column into column 0.
SnakeAndFoodWhileRoomWitness ==
    /\ sn["t1"] # NoGame
    /\ sn["t1"].score >= 1
    /\ sn["t1"].direction = RIGHT
    /\ sn["t1"].snake[1][1] = 0
    /\ sn["t1"].snake[2][1] = sn["t1"].width - 1
    /\ sn["t1"].snake[2][2] = sn["t1"].snake[1][2]

\* How often item x is in a list.
Count(x, list) == Cardinality({i \in 1..Len(list) : list[i] = x})

\* The inventory is list `before` without one item with this id.
WithoutOne(after, before, item_id) ==
    \E i \in Matches(before, item_id) : after = Pop(before, i)

\* The command of coroutine t is dispatched on this step.
Dispatched(t, o) == Free(t) /\ task'[t].op = o /\ task'[t] # task[t]

\* C22: `inventory gift` moves exactly one item: the step on which a gift
\* is made takes one item with the id from the sender's inventory, leaving
\* the sender's other items as they were, and appends it to the
\* recipient's; a gift that is refused changes neither inventory; and no
\* step of a run of two gift commands at a time changes how often an item
\* is in the two inventories together.
GiftNeitherDuplicatesNorLoses ==
    [][/\ \A t \in Tasks, u \in Players, member \in Players, x \in GiftItems :
            ( /\ Dispatched(t, "inventory_gift")
              /\ task'[t].who = u /\ task'[t].other = member /\ task'[t].item = x ) =>
               /\ task'[t].res = "ok" <=> (u # member /\ Count(x, Inventory(u)) > 0)
               /\ IF task'[t].res = "ok"
                  THEN /\ WithoutOne(Inventory(u)', Inventory(u), x)
                       /\ Inventory(member)' = Append(Inventory(member), x)
                       /\ Count(x, Inventory(u)') = Count(x, Inventory(u)) - 1
                  ELSE /\ Inventory(u)' = Inventory(u)
                       /\ Inventory(member)' = Inventory(member)
       /\ \A x \in SeqRange(GiftStock) :
            Count(x, Inventory("p1")') + Count(x, Inventory("p2")')
               = Count(x, Inventory("p1")) + Count(x, Inventory("p2"))]_vars

\* Two gifts of the one common lootbox by the first player at a time: the
\* first has moved it and waits for its message to be sent, the second has
\* found none to give.
GiftNeitherDuplicatesNorLosesWitness ==
    \E a \in Tasks, b \in Tasks :
        /\ task[a].pc = "gift_sent" /\ task[a].who = "p1" /\ task[a].item = "lootbox_common"
        /\ FinishedOp(b, {"inventory_gift"}) /\ task[b].who = "p1"
        /\ task[b].item = "lootbox_common" /\ task[b].res = "not_found"
        /\ Inventory("p1") = <<"lootbox_rare">>
        /\ Inventory("p2") = <<"lootbox_common">>

\* The boosters a reader of the store sees for player p.
Boosters(p) ==
    IF cache[p] # 0 THEN heap[cache[p]].boosters
    ELSE IF file[p] # NoFile THEN file[p].boosters ELSE <<>>

\* C23: no player has two active boosters with one effect at any time.
OneActiveBoosterPerEffect ==
    \A p \in Players :
        \A i, j \in 1..Len(Boosters(p)) :
            (/\ Boosters(p)[i].active /\ Boosters(p)[j].active
             /\ Boosters(p)[i].effect = Boosters(p)[j].effect) => i = j

\* The registry keys that are taken: a player in a game's registry, or the
\* channel in the registry of a game keyed by channel.
HeldKeys ==
    {<<"blackjack", p>> : p \in {q \in Players : bj_games[q] # "none"}}
    \cup {<<"memory", p>> : p \in {q \in Players : mem_games[q] # "none"}}
    \cup {<<"numguess", p>> : p \in {q \in Players : ng_games[q] # "none"}}
    \cup {<<"hangman", p>> : p \in {q \in Players : hm_games[q] # "none"}}
    \cup {<<"rps", p>> : p \in {q \in Players : rps_games[q] # "none"}}
    \cup {<<"tictactoe", "channel">> : c \in {ttt_games} \ {"none"}}
    \cup {<<"wordscramble", "channel">> : c \in {ws_games} \ {"none"}}

\* The session of coroutine t waits for its player.
AwaitsPlayer(t) ==
    task[t].pc \in {"ttt_wait", "mem_wait", "ng_wait", "hm_wait", "rps_wait", "ws_wait"}

\* The session of coroutine t has ended by a timeout.
TimedOut(t) == task[t].pc = "done" /\ task[t].item = "timeout"

\* A session of one of the six games that wait for their player in a step
\* of their own times out and frees its key.
WaitingSessionTimesOut ==
    AwaitsPlayer("t1") ~> (TimedOut("t1") /\ HeldKeys = {})

\* A blackjack command with a bet within the limits that the player can
\* pay has had its session, which ended by the timeout and left the
\* player's key free.
BlackjackSessionTimedOut ==
    \A t \in Tasks :
        (FinishedOp(t, {"blackjack"}) /\ task[t].amt \in min_bet..max_bet
            /\ task[t].pre >= task[t].amt)
        => /\ task[t].res = "ok"
           /\ task[t].sub = "timeout"
           /\ bj_games[task[t].who] = "none"

\* C24 (as claimed): in Blackjack, Tic-Tac-Toe, Hangman, Number-Guess,
\* Memory, Rock-Paper-Scissors and Word-Scramble a session that waits for a
\* player who never reacts eventually times out: the session is over and
\* no registry key is taken any more, so that a new game can be started.
\* Of Blackjack, whose command the model takes in one step: a command that
\* is to start a session has had one, ended by the timeout.
IdleSessionTimesOut ==
    WaitingSessionTimesOut /\ []BlackjackSessionTimedOut

\* C25: a Snake session whose player never reacts again eventually ends and
\* releases the player's registry slot.
IdleSnakeEnds ==
    \A p \in Players : (sn_games[p] # "none") ~> (sn_games[p] = "none")

\* The registry of game o, as a function of the player; the games keyed by
\* channel have one entry for the one channel.
Registry(o) ==
    CASE o = "hangman" -> hm_games
      [] o = "numguess" -> ng_games
      [] o = "snake" -> sn_games
      [] o = "memory" -> mem_games
      [] o = "rps" -> rps_games
      [] o = "wordscramble" -> [p \in Players |-> ws_games]
StartOps == {"hangman", "numguess", "snake", "memory", "rps", "wordscramble"}

\* The session of coroutine t is under way: it waits for its player, or,
\* in Snake, for the next move.
Playing(t) ==
    /\ task[t].pc \in {"hm_wait", "ng_wait", "sn_play", "mem_wait", "rps_wait", "ws_show",
                      "ws_wait"}
    /\ task[t].op = "snake" => ~sn[t].game_over

\* The coroutines that run a session of game o for player k (for the
\* channel, if o is keyed by channel).
Sessions(o, k) ==
    {t \in Tasks : /\ task[t].op = o
                   /\ Playing(t)
                   /\ o = "wordscramble" \/ k \in {task[t].who, task[t].other}}
OneSessionPerKey ==
    \A o \in StartOps, k \in Players : Cardinality(Sessions(o, k)) <= 1

\* A start command issued while its key is registered is rejected and
\* changes no registry and no session.
StartRejectedWhileTaken ==
    \A t \in Tasks :
        (Free(t) /\ ncmd' < ncmd /\ task'[t] # task[t] /\ task'[t].op \in StartOps
         /\ Registry(task'[t].op)[task'[t].who] # "none")
        => /\ task'[t].pc = "done"
           /\ task'[t].res = "already_active"
           /\ UNCHANGED <<hm_games, ng_games, sn_games, mem_games, rps_games, ws_games>>
           /\ \A t2 \in Tasks \ {t} :
                 UNCHANGED <<task[t2], hm[t2], ng[t2], sn[t2], mem[t2], ws[t2]>>

\* C26: for Hangman, Number-Guess, Snake, Memory, Rock-Paper-Scissors and
\* Word-Scramble a start command issued while the key is registered is
\* rejected and leaves the existing session and the registry unchanged, and
\* at most one session exists per key at any time.
StartsKeepOneSession == [][StartRejectedWhileTaken /\ OneSessionPerKey']_vars

\* Choice a beats choice b.
Beats(a, b) == <<a, b>> \in {<<"Rock", "Scissors">>, <<"Paper", "Rock">>, <<"Scissors", "Paper">>}

\* What a finished duel with bet has to leave player p with, p having
\* chosen mine and the opponent theirs.
DuelDue(before, bet, mine, theirs) ==
    IF Beats(mine, theirs) THEN before + bet
    ELSE IF Beats(theirs, mine) THEN before - bet ELSE before

\* The results of a duel that was refused, declined, left unanswered or
\* cancelled for a missing choice.
DuelRefusals ==
    {"self", "negative_bet", "insufficient", "insufficient_target", "declined", "expired",
     "cancelled"}

\* C27 (as claimed): a wagered rps_duel that is not refused is played; the
\* winner is the player whose own choice beats the opponent's, the winner's
\* balance has grown by the bet and the loser's has shrunk by it, and after
\* a tie both balances are as before.
DuelPaysTheRightWinner ==
    \A t \in Tasks :
        (FinishedOp(t, {"rps_duel"}) /\ task[t].amt > 0 /\ task[t].res \notin DuelRefusals) =>
            /\ task[t].res = "ok"
            /\ duel[t].winner = "player1" <=> Beats(duel[t].chosen1, duel[t].chosen2)
            /\ duel[t].winner = "player2" <=> Beats(duel[t].chosen2, duel[t].chosen1)
            /\ Balance(task[t].who)
                  = DuelDue(task[t].pre, task[t].amt, duel[t].chosen1, duel[t].chosen2)
            /\ Balance(task[t].other)
                  = DuelDue(task[t].pre2, task[t].amt, duel[t].chosen2, duel[t].chosen1)

\* C28: on every successful daily claim the streak becomes the old streak
\* + 1 if the previous claim was less than 172800 s ago and 1 otherwise, and
\* the amount credited is the base roll (100..200) plus 50 times the new
\* streak, when the streak continues and when it is reset alike.
DailyPaysBasePlusStreak ==
    \A t \in Tasks :
        (FinishedOp(t, {"daily"}) /\ task[t].res = "ok") =>
            LET streak == IF task[t].at - task[t].last < 172800
                          THEN task[t].streak + 1 ELSE 1
            IN  /\ task[t].amt \in 100..200
                /\ task[t].out = task[t].amt + 50 * streak
                /\ now = task[t].at => Stored(task[t].who).daily_streak = streak

\* The games whose last call was check_game_over.
CheckedGames == {t \in Tasks : bj[t] # NoGame /\ call.fn = "check_game_over"}

\* The result of a stand: the two values compared.
Compared(player_value, dealer_value) ==
    CASE dealer_value > 21 -> "dealer_bust"
      [] dealer_value <= 21 /\ dealer_value > player_value -> "dealer_wins"
      [] dealer_value <= 21 /\ dealer_value < player_value -> "player_wins"
      [] OTHER -> "push"

\* A natural: two cards, an ace and a 10, J, Q or K.
Natural(hand) ==
    /\ Len(hand) = 2
    /\ \/ hand[1] = 1 /\ hand[2] \in 10..13
       \/ hand[2] = 1 /\ hand[1] \in 10..13

\* C29 (as claimed): check_game_over resolves in this order: two naturals
\* give push, the player's natural gives blackjack, the dealer's gives
\* dealer_blackjack, a player value above 21 gives bust; otherwise the game
\* is over only if the player has stood, the dealer has then drawn to 17 or
\* more and the result is dealer_bust, dealer_wins, player_wins or push by
\* the two values.  Without a natural the game of a player who has neither
\* stood nor busted is not over.
BlackjackResolution ==
    \A t \in CheckedGames :
        LET g == bj[t]
            pn == Natural(g.player_hand)
            dn == Natural(g.dealer_hand)
            pv == get_hand_value(g.player_hand)
            dv == get_hand_value(g.dealer_hand)
        IN  /\ (pn /\ dn) => g.result = "push"
            /\ (pn /\ ~dn) => g.result = "blackjack"
            /\ (~pn /\ dn) => g.result = "dealer_blackjack"
            /\ (~pn /\ ~dn /\ pv > 21) => g.result = "bust"
            /\ (~pn /\ ~dn /\ pv <= 21 /\ g.player_stood)
                  => dv >= 17 /\ g.result = Compared(pv, dv)
            /\ g.game_over <=> (pn \/ dn \/ pv > 21 \/ g.player_stood)
            /\ ~g.game_over => g.result = "None"

\* What a game with this result changes the player's balance by.
BlackjackNet(result, bet) ==
    CASE result = "blackjack" -> (3 * bet) \div 2
      [] result \in {"player_wins", "dealer_bust"} -> bet
      [] result = "push" -> 0
      [] result \in {"bust", "dealer_blackjack", "dealer_wins"} -> 0 - bet

\* C30 (as claimed): a blackjack command with a bet within the limits that
\* the player can pay plays one complete game, over which the balance changes
\* by floor(1.5 x bet) on blackjack, by the bet on player_wins or
\* dealer_bust, by 0 on push and by minus the bet on bust, dealer_blackjack
\* or dealer_wins; the registry entry is removed at the end.
BlackjackGameSettles ==
    \A t \in Tasks :
        (FinishedOp(t, {"blackjack"}) /\ task[t].amt \in min_bet..max_bet
            /\ task[t].pre >= task[t].amt)
        => /\ task[t].item \in {"blackjack", "player_wins", "dealer_bust", "push", "bust",
                                "dealer_blackjack", "dealer_wins"}
           /\ Balance(task[t].who) = task[t].pre + BlackjackNet(task[t].item, task[t].amt)
           /\ bj_games[task[t].who] = "none"

\* The cells of a board that hold mark m.
Marks(board, m) == Cardinality({i \in DOMAIN board : board[i] = m})

\* C31: make_move(position, player) is accepted iff the game is not over,
\* the player is the one to move, 0 <= position <= 8 and the cell is empty;
\* an accepted move writes the mover's symbol (X for player1, O for player2)
\* into that cell only and passes the turn to the other player; a rejected
\* move changes nothing.  The X marks are as many as the O marks or one more.
MakeMoveFrame ==
    [][ttt["t1"] # NoGame =>
          LET g == ttt["t1"]
              after == ttt'["t1"]
              position == call'.arg[1]
              player == call'.arg[2]
              legal == /\ ~g.game_over
                       /\ player = g.current_turn
                       /\ position \in 0..8
                       /\ g.board[position + 1] = "None"
          IN  /\ call'.fn = "make_move"
              /\ call'.ret = legal
              /\ legal =>
                    /\ after.board[position + 1] = (IF player = g.player1 THEN "X" ELSE "O")
                    /\ \A i \in 1..9 : i # position + 1 => after.board[i] = g.board[i]
                    /\ after.current_turn # player
                    /\ after.current_turn \in {g.player1, g.player2}
                    /\ after.player1 = g.player1 /\ after.player2 = g.player2
                    /\ after.bet = g.bet
              /\ ~legal => after = g
              /\ Marks(after.board, "X") - Marks(after.board, "O") \in {0, 1}]_vars

MakeMoveFrameWitness ==
    /\ call.fn = "make_move"
    /\ call.ret = TRUE
    /\ call.arg[2] = "p2"
    /\ ttt["t1"].board[call.arg[1] + 1] = "O"
    /\ ttt["t1"].current_turn = "p1"
    /\ Marks(ttt["t1"].board, "X") = 2

\* The direction opposite to d.
Reverse(d) == <<-d[1], -d[2]>>

\* The queued directions that do not reverse direction d, by their place.
Turns(keys, d) == {i \in 1..Len(keys) : keys[i] # Reverse(d)}

\* The greatest of a non-empty set of numbers.
Last(S) == CHOOSE i \in S : \A j \in S : j <= i

\* C32: the direction applied at a snake tick is never the opposite of the
\* direction applied at the tick before, whatever directions were queued
\* between the two; of the queued directions the last one that does not
\* reverse the current direction is the one applied (the current direction
\* goes on when there is none).
SteeringNeverReverses ==
    [][sn["t1"] # NoGame =>
          LET g == sn["t1"]
              keys == call'.arg
              applied == sn'["t1"].direction
          IN  /\ applied # Reverse(g.direction)
              /\ applied = (IF Turns(keys, g.direction) = {} THEN g.direction
                            ELSE keys[Last(Turns(keys, g.direction))])]_vars

SteeringNeverReversesWitness ==
    /\ call.fn = "handle_movement"
    /\ call.ret = 2
    /\ call.arg = <<RIGHT, LEFT, DOWN>>
    /\ sn["t1"].direction = LEFT
    /\ sn["t1"].snake[1] = <<3, 3>>

\* C33: a single letter already guessed is rejected and changes nothing; a
\* new letter that is not in the word adds 1 to the incorrect count; a
\* wrong whole-word guess adds 2, clamped to 6; a correct whole-word guess
\* adds every letter of the word to the guessed set.  The incorrect count
\* is always in 0..6, an index into the 7 stages.
HangmanGuessProcessed ==
    [][\A t \in Tasks :
          (task[t].pc = "hm_wait" /\ hm'[t].status # "timeout") =>
              LET g == hm[t]
                  after == hm'[t]
                  guess == call'.arg
                  letters == SeqRange(g.word)
              IN  /\ after.incorrect_guesses \in 0..6
                  /\ (Len(guess) = 1 /\ guess[1] \in g.guessed_letters)
                        => after = g
                  /\ (Len(guess) = 1 /\ guess[1] \notin g.guessed_letters)
                        => /\ after.guessed_letters = g.guessed_letters \cup {guess[1]}
                           /\ after.incorrect_guesses =
                                 g.incorrect_guesses + (IF guess[1] \in letters THEN 0 ELSE 1)
                  /\ (Len(guess) > 1 /\ guess # g.word)
                        => /\ after.incorrect_guesses = Min(g.incorrect_guesses + 2, 6)
                           /\ after.guessed_letters = g.guessed_letters
                  /\ (Len(guess) > 1 /\ guess = g.word)
                        => /\ after.guessed_letters = g.guessed_letters \cup letters
                           /\ after.incorrect_guesses = g.incorrect_guesses]_vars

HangmanGuessProcessedWitness ==
    \E t \in Tasks :
        /\ hm[t] # NoGame
        /\ Len(call.arg) > 1
        /\ call.arg # hm[t].word
        /\ hm[t].incorrect_guesses = 6
        /\ hm[t].guessed_letters = {"x", "q", "z"}

\* Every letter of the word of game g is guessed.
AllGuessed(g) == SeqRange(g.word) \subseteq g.guessed_letters

\* The outcome and the payment of the hangman games as they stand.
HangmanEnds ==
    \A t \in Tasks :
        LET g == hm[t]
            fr == task[t]
        IN  g # NoGame =>
              /\ g.status = "won" <=> (AllGuessed(g) /\ fr.pc \notin {"hm_wait", "hm_check"})
              /\ g.status = "lost"
                    <=> (~AllGuessed(g) /\ g.incorrect_guesses = 6 /\ fr.pc # "hm_check")
              /\ g.status = "timeout"
                    => (/\ ~AllGuessed(g) /\ g.incorrect_guesses < 6
                        /\ fr.pc \notin {"hm_wait", "hm_check"})
              /\ g.status = "active" <=> fr.pc \in {"hm_wait", "hm_check"}
              /\ g.reward = 10 * Cardinality({g.word[i] : i \in 1..Len(g.word)})
              /\ fr.pc = "hm_end" => Balance(fr.who) = fr.pre
              /\ fr.pc \in {"hm_cleanup", "done"}
                    => Balance(fr.who) = fr.pre + (IF g.status = "won" THEN g.reward ELSE 0)
              /\ fr.pc = "done" => hm_games[fr.who] = "none"

\* C34: a hangman game ends as won exactly when every letter of the word is
\* in the guessed set, as lost exactly when the incorrect count reaches 6
\* with a letter still unguessed, and as timeout when no guess arrives in
\* time; a game reaches one outcome and keeps it; the reward, 10 coins a
\* distinct letter of the word, is credited once on a win and never on a
\* loss or a timeout.
HangmanOutcome ==
    [][/\ HangmanEnds'
       /\ \A t \in Tasks :
             (hm[t] # NoGame /\ hm[t].status # "active" /\ task[t].pc # "done")
                 => hm'[t] = hm[t]]_vars

HangmanOutcomeWitness ==
    \E t \in Tasks :
        /\ FinishedOp(t, {"hangman"})
        /\ hm[t] # NoGame
        /\ hm[t].status = "won"
        /\ hm[t].word = <<"a", "v", "a", "t", "a", "r">>
        /\ hm[t].incorrect_guesses = 5
        /\ Balance(task[t].who) = task[t].pre + 40

\* The coroutines inside end_game between its check of the registry and its
\* `del`: each of them sends the result of the channel's game.
Announcing ==
    {<<t, "command">> : t \in {t2 \in Tasks : task[t2].pc = "ws_send"}}
        \cup {<<t, "timer">> : t \in {t2 \in Tasks : TimerAt(t2) = "send"}}

\* A word scramble handler that has returned: a timed-out session paid
\* nobody, a solved one paid its solver, once.
WordGamePaid ==
    \A t \in Tasks :
        (FinishedOp(t, {"wordscramble"}) /\ task[t].item \in {"timeout", "solved"}) =>
            IF task[t].item = "timeout" THEN task[t].sub = "none"
            ELSE /\ task[t].sub = "add_balance"
                 /\ task[t].sub_who = ws[t].solver
                 /\ task[t].sub_amt = ws[t].base_reward + ws[t].time_bonus
                 /\ Balance(ws[t].solver) = task[t].pre + task[t].sub_amt

\* C35 (as claimed): a word scramble session is resolved once, as solved
\* by the first right answer (the reward credited once, to that solver) or
\* as timed out (no reward): at most one coroutine sends its result, and
\* every `del` of the channel's entry finds the entry, although the wait of
\* the command and the last stage of game_timeout both lead to the timeout
\* ending.
WordScrambleResolvedOnce ==
    [][/\ Cardinality(Announcing') <= 1
       /\ WordGamePaid'
       /\ \A t \in Tasks :
             /\ (task[t].pc = "ws_send" /\ task'[t].pc = "done") => ws_games # "none"
             /\ (TimerAt(t) = "send" /\ TimerAt(t)' = "done") => ws_games # "none"]_vars

\* C36: once a right answer has been accepted the hint and timeout task of
\* the session is cancelled and takes no further step: it is at its end
\* when the session is solved, and from then on no hint is revealed, the
\* time bonus does not change and no timeout ending is produced.
SolvedStopsTimer ==
    [][\A t \in Tasks :
          (ws'[t] # NoGame /\ ws'[t].solved) =>
              /\ TimerAt(t)' = "done"
              /\ <<t, "timer">> \notin Announcing'
              /\ task'[t].item # "timeout"
              /\ (ws[t] # NoGame /\ ws[t].solved)
                    => /\ ws'[t].hinted = ws[t].hinted
                       /\ ws'[t].time_bonus = ws[t].time_bonus
                       /\ ws'[t].timer = ws[t].timer]_vars

SolvedStopsTimerWitness ==
    \E t \in Tasks :
        /\ FinishedOp(t, {"wordscramble"})
        /\ task[t].item = "solved"
        /\ ws[t].solved
        /\ ws[t].hinted = t
        /\ ws[t].time_bonus = solved_time_bonus(ws[t].base_reward, 301)
        /\ ws[t].timer = "done"
        /\ ws_games = "none"

\* The choices the last step of a round of `rps @user` collected.
Collected == IF call.fn = "determine_winner" THEN call.arg ELSE call.ret

\* A round of either command in which a player made no choice: the
\* handler is past the choices, determined no winner and has changed no
\* balance; when it has returned, neither player of `rps @user` is
\* registered as playing.
RoundCancelled ==
    \A t \in Tasks :
        /\ (task[t].op = "rps" /\ task[t].item = "cancelled") =>
              /\ task[t].pc \in {"rps_cleanup", "done"}
              /\ call.fn # "determine_winner"
              /\ task[t].pc = "done" =>
                    rps_games[task[t].who] = "none" /\ rps_games[task[t].other] = "none"
        /\ (/\ task[t].op = "rps_duel"
            /\ duel[t] # NoGame
            /\ "None" \in {duel[t].chosen1, duel[t].chosen2}) =>
              /\ task[t].pc = "done"
              /\ task[t].res = "cancelled"
              /\ duel[t].winner = "None"
              /\ Balance(task[t].who) = task[t].pre
              /\ Balance(task[t].other) = task[t].pre2

\* C37: in a two-player round of `rps @user` or `rps_duel` in which a
\* player makes no choice, the round is cancelled: no winner is
\* determined, no balance and no statistics change for either player, and
\* after `rps @user` both players' registry entries are removed.
CancelledRoundChangesNothing ==
    [][/\ RoundCancelled'
       /\ \A t \in Tasks :
            /\ (/\ task[t].pc = "rps_choose"
                /\ task'[t].pc # "rps_choose"
                /\ "None" \in {Collected'[1], Collected'[2]}) =>
                  task'[t].item = "cancelled"
            /\ (task'[t].op \in {"rps", "rps_duel"} /\ task[t].pc # "done"
                /\ (task'[t].item = "cancelled" \/ task'[t].res = "cancelled")) =>
                  /\ rps_stats' = rps_stats
                  /\ \A p \in Players : Balance(p)' = Balance(p)]_vars

CancelledRoundChangesNothingWitness ==
    /\ task["t1"].op = "rps"
    /\ task["t1"].pc = "done"
    /\ task["t1"].item = "cancelled"
    /\ call.fn = "get_player_choice"
    /\ call.ret = <<"rock", "None">>
    /\ rps_games[task["t1"].who] = "none"
    /\ rps_games[task["t1"].other] = "none"

\* The pairs in which the first choice beats the second.
FirstBeats == {<<"rock", "scissors">>, <<"paper", "rock">>, <<"scissors", "paper">>}

\* C38: determine_winner(a, b) over rock, paper and scissors is a tie
\* exactly when a = b, a win exactly for (rock, scissors), (paper, rock)
\* and (scissors, paper), and a win for (a, b) exactly when it is a loss
\* for (b, a); every call a round makes returns accordingly.
DetermineWinnerRelation ==
    /\ \A a \in RpsChoices, b \in RpsChoices :
          /\ determine_winner(a, b) \in {"win", "loss", "tie"}
          /\ determine_winner(a, b) = "tie" <=> a = b
          /\ determine_winner(a, b) = "win" <=> <<a, b>> \in FirstBeats
          /\ determine_winner(a, b) = "win" <=> determine_winner(b, a) = "loss"
    /\ call.fn = "determine_winner" =>
          /\ call.arg[1] \in RpsChoices /\ call.arg[2] \in RpsChoices
          /\ call.ret = "tie" <=> call.arg[1] = call.arg[2]
          /\ call.ret = "win" <=> call.arg \in FirstBeats
          /\ call.ret = "loss" <=> <<call.arg[2], call.arg[1]>> \in FirstBeats

DetermineWinnerRelationWitness ==
    /\ call.fn = "determine_winner"
    /\ call.arg = <<"rock", "paper">>
    /\ call.ret = "loss"
    /\ task["t1"].pc = "done"
    /\ task["t1"].other \in Players
    /\ rps_stats[task["t1"].other].wins = 1

\* C39: a purchased lootbox pays out its coins at most once: no player has
\* had more payouts of open_lootbox than lootboxes bought, a lootbox opened
\* at purchase not being left in the inventory to be opened again.
LootboxPaysOnce ==
    loot # NoLog => \A p \in Players : loot[p].opened <= loot[p].bought

\* C40 (as claimed): `inventory use <id>` removes from the inventory exactly
\* the item that was used and no other, whatever another `inventory gift`
\* or `inventory use` of the same player did to the inventory while the
\* use was waiting (a lootbox: for its message to be sent; a booster: for
\* the confirmation, which declined or timed out leaves the inventory
\* unchanged).  Stated of the step on which the handler returns after the
\* wait.
UseRemovesTheItemUsed ==
    [][\A t \in Tasks :
          (task[t].op = "inventory_use"
           /\ task[t].pc \in {"use_remove", "use_confirm"} /\ task'[t].pc = "done") =>
             IF task'[t].res \in {"cancelled", "timeout"}
             THEN Inventory(task[t].who)' = Inventory(task[t].who)
             ELSE /\ task'[t].res = "ok"
                  /\ WithoutOne(Inventory(task[t].who)', Inventory(task[t].who),
                                task[t].item)]_vars

====
